---- MODULE Spec2Model ----
(***************************************************************************)
(* The SMS command API of server.js: the relational store created by       *)
(* initializeDatabase (device_models, commands, sms_history, sms_messages) *)
(* and the request handlers working on it.  Every `await pool.query` of a  *)
(* handler is one atomic step of the store; the handlers of concurrent     *)
(* requests interleave between their awaits.  The store is taken to answer *)
(* every statement, except under ShutdownSpec, where the connections to    *)
(* it may go dead; ids in requests are numbers.                            *)
(*                                                                         *)
(* Spec follows the requests of a listening process on the seeded store,   *)
(* StartSpec the runs of initializeDatabase on stores left by earlier      *)
(* requests, HistorySpec the history query over stored rows, ShutdownSpec  *)
(* gracefulShutdown with requests in flight, LimiterSpec the rate limiting *)
(* middleware, ConnectSpec startServer from connectWithRetry on, and       *)
(* HistoryRaceSpec the history query against concurrent writes.            *)
(*                                                                         *)
(* Text (names, command texts, phone numbers) is a sequence of one-        *)
(* character strings, so that trim, the phone pattern and the VARCHAR      *)
(* limits are computed on the characters.                                  *)
(***************************************************************************)
EXTENDS Integers, Sequences, FiniteSets

VARIABLES
  device_models,   \* rows of table device_models
  commands,        \* rows of table commands
  sms_history,     \* rows of table sms_history
  sms_messages,    \* rows of the legacy table sms_messages
  seqs,            \* the SERIAL sequence behind each table's id column
  reqs,            \* the HTTP requests: handler position, locals, response
  server           \* the process: startup position, pool, listener, exit

vars ==
  <<device_models, commands, sms_history, sms_messages, seqs, reqs, server>>

tables == <<device_models, commands, sms_history, sms_messages>>

----------------------------------------------------------------------------
(* Bounds of the model *)

\* number of HTTP requests issued in one behaviour
MaxReq == 2

\* longest phoneNumbers array of a send request
MaxBatch == 2

\* number of times the process is started on the same database
MaxRuns == 2

----------------------------------------------------------------------------
(* Text *)

Rep(c, n) == [k \in 1..n |-> c]

Digit == {"0", "1", "2", "3", "4", "5", "6", "7", "8", "9"}

\* what String.prototype.trim strips, among the characters used here
IsSpace(c) == c = " "

RECURSIVE TrimStart(_)
TrimStart(s) ==
  IF s = <<>> THEN s
  ELSE IF IsSpace(Head(s)) THEN TrimStart(Tail(s)) ELSE s

RECURSIVE TrimEnd(_)
TrimEnd(s) ==
  IF s = <<>> THEN s
  ELSE IF IsSpace(s[Len(s)]) THEN TrimEnd(SubSeq(s, 1, Len(s) - 1)) ELSE s

\* faulty variant, for sensitivity: nothing is stripped
trimNothing(s) == s

trim(s) == TrimEnd(TrimStart(s))

\* value || null
NULL == "<NULL>"

OrNull(v) == IF v = "" THEN NULL ELSE v

\* the character class and the quantifier of phoneRegex
PhoneChar == Digit \cup {"+", "-", "(", ")", " "}

PhoneMinLen == 10

PhoneMaxLen == 20

phoneRegexTest(s) ==
  /\ Len(s) >= PhoneMinLen
  /\ Len(s) <= PhoneMaxLen
  /\ \A k \in 1..Len(s) : s[k] \in PhoneChar

\* phoneNumbers.filter(phone => !phoneRegex.test(phone.trim()))
RECURSIVE FilterInvalid(_)
FilterInvalid(phones) ==
  IF phones = <<>> THEN <<>>
  ELSE (IF phoneRegexTest(trim(Head(phones))) THEN <<>> ELSE <<Head(phones)>>)
         \o FilterInvalid(Tail(phones))

----------------------------------------------------------------------------
(* Schema: column limits and the seed rows of initializeDatabase *)

\* device_models.name VARCHAR(100)
NameMaxLen == 100

\* commands.command_text and sms_history.command_text VARCHAR(255)
CommandTextMaxLen == 255

\* sms_history.phone_number VARCHAR(20)
PhoneNumberMaxLen == 20

seedModels ==
  << [name |-> <<"T", "K", "1", "0", "3">>,
      description |-> "Rastreador GPS TK103 - Modelo basico"],
     [name |-> <<"T", "K", "1", "0", "2">>,
      description |-> "Rastreador GPS TK102 - Modelo compacto"],
     [name |-> <<"G", "T", "0", "6">>,
      description |-> "Rastreador GPS GT06 - Modelo avancado"],
     [name |-> <<"S", "T", "9", "0", "1">>,
      description |-> "Rastreador GPS ST901 - Modelo profissional"],
     [name |-> <<"T", "K", "3", "0", "3">>,
      description |-> "Rastreador GPS TK303 - Modelo veicular"],
     [name |-> <<"G", "T", "0", "2", "A">>,
      description |-> "Rastreador GPS GT02A - Modelo pessoal"] >>

sampleCommands ==
  << [model |-> <<"T", "K", "1", "0", "3">>,
      command |-> <<"R", "E", "S", "E", "T", "1", "2", "3", "4", "5", "6">>,
      description |-> "Comando RESET123456 para TK103"],
     [model |-> <<"T", "K", "1", "0", "3">>,
      command |-> <<"S", "T", "A", "T", "U", "S", "1", "2", "3", "4", "5", "6">>,
      description |-> "Comando STATUS123456 para TK103"],
     [model |-> <<"T", "K", "1", "0", "3">>,
      command |-> <<"G", "P", "R", "S", "1", "2", "3", "4", "5", "6">>,
      description |-> "Comando GPRS123456 para TK103"],
     [model |-> <<"T", "K", "1", "0", "3">>,
      command |-> <<"A", "P", "N", "1", "2", "3", "4", "5", "6">>,
      description |-> "Comando APN123456 para TK103"],
     [model |-> <<"T", "K", "1", "0", "2">>,
      command |-> <<"b", "e", "g", "i", "n", "1", "2", "3", "4", "5", "6">>,
      description |-> "Comando begin123456 para TK102"],
     [model |-> <<"T", "K", "1", "0", "2">>,
      command |-> <<"e", "n", "d", "1", "2", "3", "4", "5", "6">>,
      description |-> "Comando end123456 para TK102"],
     [model |-> <<"T", "K", "1", "0", "2">>,
      command |-> <<"c", "h", "e", "c", "k", "1", "2", "3", "4", "5", "6">>,
      description |-> "Comando check123456 para TK102"],
     [model |-> <<"T", "K", "1", "0", "2">>,
      command |-> <<"f", "i", "x", "0", "6", "0", "s", "1", "2", "3", "4", "5", "6">>,
      description |-> "Comando fix060s123456 para TK102"],
     [model |-> <<"G", "T", "0", "6">>,
      command |-> <<"R", "E", "S", "E", "T", "#">>,
      description |-> "Comando RESET# para GT06"],
     [model |-> <<"G", "T", "0", "6">>,
      command |-> <<"S", "T", "A", "T", "U", "S", "#">>,
      description |-> "Comando STATUS# para GT06"],
     [model |-> <<"G", "T", "0", "6">>,
      command |-> <<"G", "P", "R", "S", "#">>,
      description |-> "Comando GPRS# para GT06"],
     [model |-> <<"G", "T", "0", "6">>,
      command |-> <<"S", "E", "R", "V", "E", "R", "#">>,
      description |-> "Comando SERVER# para GT06"],
     [model |-> <<"S", "T", "9", "0", "1">>,
      command |-> <<"*", "1", "2", "3", "4", "5", "6", "*", "0", "0", "0", "#">>,
      description |-> "Comando *123456*000# para ST901"],
     [model |-> <<"S", "T", "9", "0", "1">>,
      command |-> <<"*", "1", "2", "3", "4", "5", "6", "*", "0", "0", "1", "#">>,
      description |-> "Comando *123456*001# para ST901"],
     [model |-> <<"S", "T", "9", "0", "1">>,
      command |-> <<"*", "1", "2", "3", "4", "5", "6", "*", "0", "0", "2", "#">>,
      description |-> "Comando *123456*002# para ST901"],
     [model |-> <<"S", "T", "9", "0", "1">>,
      command |-> <<"*", "1", "2", "3", "4", "5", "6", "*", "0", "0", "3", "#">>,
      description |-> "Comando *123456*003# para ST901"] >>

\* ids given by the SERIAL columns to the seed rows on an empty store
SeedModelRows ==
  { [id |-> k, name |-> seedModels[k].name,
     description |-> seedModels[k].description] : k \in 1..Len(seedModels) }

\* SELECT id FROM device_models WHERE name = $1
ModelIdByName(models, n) == (CHOOSE m \in models : m.name = n).id

SeedCommandRows ==
  { [id |-> k,
     model_id |-> ModelIdByName(SeedModelRows, sampleCommands[k].model),
     command_text |-> sampleCommands[k].command,
     description |-> sampleCommands[k].description] :
       k \in 1..Len(sampleCommands) }

----------------------------------------------------------------------------
(* The store: constraints of the four tables *)

\* faulty variant, for sensitivity: no UNIQUE constraint on name
InsertModelErrorNoUnique(models, name) ==
  IF Len(name) > NameMaxLen THEN "22001" ELSE "none"

\* INSERT INTO device_models: VARCHAR(100), then UNIQUE(name)
InsertModelError(models, name) ==
  IF Len(name) > NameMaxLen THEN "22001"
  ELSE IF \E m \in models : m.name = name THEN "23505"
  ELSE "none"

\* faulty variant, for sensitivity: the update does not see UNIQUE(name)
UpdateModelErrorNoUnique(models, id, name) ==
  IF Len(name) > NameMaxLen THEN "22001" ELSE "none"

\* UPDATE device_models SET name = $1 WHERE id = $3: the bound value is
\* coerced to VARCHAR(100) when the statement is planned, whether or not a
\* row has that id; UNIQUE(name) is checked on the row updated, if any
UpdateModelError(models, id, name) ==
  IF Len(name) > NameMaxLen THEN "22001"
  ELSE IF /\ \E m \in models : m.id = id
          /\ \E m \in models : m.name = name /\ m.id # id
    THEN "23505"
  ELSE "none"

\* faulty variant, for sensitivity: commands.model_id without its reference
InsertCommandErrorNoReference(models, cmds, modelId, text) ==
  IF Len(text) > CommandTextMaxLen THEN "22001"
  ELSE IF \E c \in cmds : c.model_id = modelId /\ c.command_text = text
    THEN "23505"
  ELSE "none"

\* INSERT INTO commands: VARCHAR(255), UNIQUE(model_id, command_text),
\* then REFERENCES device_models(id)
InsertCommandError(models, cmds, modelId, text) ==
  IF Len(text) > CommandTextMaxLen THEN "22001"
  ELSE IF \E c \in cmds : c.model_id = modelId /\ c.command_text = text
    THEN "23505"
  ELSE IF ~ \E m \in models : m.id = modelId THEN "23503"
  ELSE "none"

\* UPDATE commands SET command_text = $1 WHERE id = $3: the bound value is
\* coerced to VARCHAR(255) when the statement is planned, whether or not a
\* row has that id; UNIQUE(model_id, command_text) is checked on the row
\* updated, if any
UpdateCommandError(cmds, id, text) ==
  IF Len(text) > CommandTextMaxLen THEN "22001"
  ELSE IF \E row \in cmds, c \in cmds : /\ row.id = id
                                       /\ c.id # id
                                       /\ c.model_id = row.model_id
                                       /\ c.command_text = text
    THEN "23505"
  ELSE "none"

\* commands.model_id REFERENCES device_models(id) ON DELETE CASCADE
CommandsFkOnDelete == "CASCADE"

\* faulty variant, for sensitivity: the history reference cascades like the commands reference
HistoryFkCascade == "CASCADE"

\* sms_history.model_id REFERENCES device_models(id): no ON DELETE clause
HistoryFkOnDelete == "NO ACTION"

\* the rows of a referencing table left after the model row is deleted
AfterModelDelete(rows, id, onDelete) ==
  IF onDelete = "CASCADE" THEN { x \in rows : x.model_id # id } ELSE rows

\* DELETE FROM device_models WHERE id = $1, on an existing row: a
\* NO ACTION reference refuses it while a referencing row points here
DeleteModelError(cmds, history, id) ==
  IF \/ CommandsFkOnDelete = "NO ACTION" /\ \E c \in cmds : c.model_id = id
     \/ HistoryFkOnDelete = "NO ACTION" /\ \E h \in history : h.model_id = id
    THEN "23503"
  ELSE "none"

\* INSERT INTO sms_history: VARCHAR(20), VARCHAR(255), then
\* REFERENCES device_models(id)
InsertHistoryError(models, phone, modelId, text) ==
  IF Len(phone) > PhoneNumberMaxLen \/ Len(text) > CommandTextMaxLen
    THEN "22001"
  ELSE IF ~ \E m \in models : m.id = modelId THEN "23503"
  ELSE "none"

\* faulty variant, for sensitivity: the count taken over the wrong column
CountCommandsById(cmds, id) == Cardinality({ c \in cmds : c.id = id })

\* SELECT COUNT(*) FROM commands WHERE model_id = $1
CountCommands(cmds, id) == Cardinality({ c \in cmds : c.model_id = id })

\* nextval of a table's id sequence; every executed INSERT draws one
NextVal(table) == [seqs EXCEPT ![table] = @ + 1]

----------------------------------------------------------------------------
(* Requests *)

Reqs == 1..MaxReq

NoResult ==
  [success |-> FALSE, details |-> "", command |-> <<>>, modelName |-> <<>>,
   messageId |-> "", errorCode |-> ""]

NoSummary == [total |-> 0, sent |-> 0, failed |-> 0]

\* req.query without filters: a filter left out, or empty, is falsy
NoFilters ==
  [status |-> "", modelId |-> 0, phoneNumber |-> <<>>, dateFrom |-> 0,
   dateTo |-> 0, search |-> <<>>]

NoPagination ==
  [page |-> 0, limit |-> 0, total |-> 0, pages |-> 0, hasNext |-> FALSE,
   hasPrev |-> FALSE]

\* a request slot before its request arrives; status 0 is "no response yet"
NoReq ==
  [kind |-> "idle", pc |-> "idle", id |-> 0, text |-> <<>>,
   description |-> "", phoneNumbersType |-> "undefined",
   phoneNumbers |-> <<>>, notes |-> <<>>,
   modelName |-> <<>>, commandCount |-> 0, i |-> 0, smsResult |-> NoResult,
   results |-> <<>>, errors |-> <<>>,
   status |-> 0, success |-> FALSE, error |-> "", invalidPhones |-> <<>>,
   data |-> <<>>, rows |-> {}, summary |-> NoSummary,
   page |-> 0, limit |-> 0, filters |-> NoFilters,
   pagination |-> NoPagination]

\* a request as it arrives: its route and its parameters
Arrive(kind, id, text, description) ==
  [NoReq EXCEPT !.kind = kind, !.pc = "run", !.id = id, !.text = text,
                !.description = description]

\* res.status(status).json({success, error}) ends the handler
Reply(q, status, success, error) ==
  [q EXCEPT !.pc = "done", !.status = status, !.success = success,
            !.error = error]

\* faulty variant, for sensitivity: a completed write reported as a failure
ReplyDataAsFailure(q, status, rows) ==
  [q EXCEPT !.pc = "done", !.status = 500, !.success = FALSE, !.data = rows]

\* res.status(status).json({success: true, data})
ReplyData(q, status, rows) ==
  [q EXCEPT !.pc = "done", !.status = status, !.success = TRUE, !.data = rows]

\* res.json({success: true, data: result.rows}) of a listing
ReplyRows(q, rows) ==
  [q EXCEPT !.pc = "done", !.status = 200, !.success = TRUE, !.rows = rows]

\* the client addresses (req.ip) the process sees
Addrs == {"10.0.0.1", "10.0.0.2"}

\* requestCounts.has(ip) is false: the map holds no entry for the address
NoEntry == [count |-> 0, resetTime |-> -1]

\* const requestCounts = new Map(), with what the middleware last did (the
\* address and 0 for next() or 429) and, for each address, the requests
\* passed on since its resetTime was last set
NoRequests ==
  [requestCounts |-> [ip \in Addrs |-> NoEntry],
   passed |-> [ip \in Addrs |-> 0],
   verdict |-> [ip |-> "", status |-> 0]]

\* let retries = 5
Retries == 5

\* connectWithRetry that connected at its first attempt: the local retries,
\* the calls of pool.connect() made, the 5 s waits made, and whether the
\* last attempt gave a client
ConnectedAtOnce ==
  [retries |-> Retries, attempts |-> 1, waits |-> 0, connected |-> TRUE]

\* the process once startServer has run: connected, tables initialized,
\* listening; no gracefulShutdown call yet, no request seen
Listening ==
  [phase |-> "listening", pool |-> "open", listener |-> "open",
   link |-> "up", calls |-> <<>>, timers |-> 0, exit |-> "running",
   runs |-> 0, now |-> 0, limiter |-> NoRequests,
   connect |-> ConnectedAtOnce]

\* the process has not called process.exit: its callbacks still run
Running == server.exit = "running"

\* the store answers the statement a handler awaits: the process runs and
\* its connections to the store are alive
Answered == Running /\ server.link = "up"

\* the listener accepts the request and the pool takes its first query;
\* slots are taken in order: the requests are interchangeable
CanArrive(r) ==
  /\ server.phase = "listening"
  /\ server.exit = "running"
  /\ server.listener = "open"
  /\ server.pool = "open"
  /\ reqs[r].kind = "idle"
  /\ \A s \in Reqs : s < r => reqs[s].kind # "idle"

Init ==
  /\ device_models = SeedModelRows
  /\ commands = SeedCommandRows
  /\ sms_history = {}
  /\ sms_messages = {}
  /\ seqs = [device_models |-> Len(seedModels) + 1,
             commands |-> Len(sampleCommands) + 1,
             sms_history |-> 1, sms_messages |-> 1]
  /\ reqs = [r \in Reqs |-> NoReq]
  /\ server = Listening

----------------------------------------------------------------------------
(* Model routes *)

\* POST /api/models
PostModel(r, name, description) ==
  /\ CanArrive(r)
  /\ LET q == Arrive("POST /api/models", 0, name, description)
         err == InsertModelError(device_models, trim(name))
         row == [id |-> seqs.device_models, name |-> trim(name),
                 description |-> OrNull(description)]
     IN  IF name = <<>> \/ Len(trim(name)) = 0
           THEN /\ reqs' = [reqs EXCEPT
                     ![r] = Reply(q, 400, FALSE, "Model name is required")]
                /\ UNCHANGED <<tables, seqs>>
         ELSE /\ seqs' = NextVal("device_models")
              /\ device_models' =
                   IF err = "none" THEN device_models \cup {row}
                   ELSE device_models
              /\ reqs' = [reqs EXCEPT ![r] =
                   IF err = "none" THEN ReplyData(q, 201, <<row>>)
                   ELSE IF err = "23505"
                     THEN Reply(q, 409, FALSE, "Model name already exists")
                   ELSE Reply(q, 500, FALSE, "Failed to add model")]
              /\ UNCHANGED <<commands, sms_history, sms_messages>>
  /\ UNCHANGED server

\* PUT /api/models/:id
PutModel(r, id, name, description) ==
  /\ CanArrive(r)
  /\ LET q == Arrive("PUT /api/models/:id", id, name, description)
         found == \E m \in device_models : m.id = id
         err == UpdateModelError(device_models, id, trim(name))
         row == [id |-> id, name |-> trim(name),
                 description |-> OrNull(description)]
     IN  /\ UNCHANGED <<commands, sms_history, sms_messages, seqs>>
         /\ IF name = <<>> \/ Len(trim(name)) = 0
              THEN /\ reqs' = [reqs EXCEPT
                        ![r] = Reply(q, 400, FALSE, "Model name is required")]
                   /\ UNCHANGED device_models
            ELSE IF err # "none"
              THEN /\ UNCHANGED device_models
                   /\ reqs' = [reqs EXCEPT ![r] =
                        IF err = "23505"
                          THEN Reply(q, 409, FALSE, "Model name already exists")
                        ELSE Reply(q, 500, FALSE, "Failed to update model")]
            ELSE IF ~ found
              THEN /\ reqs' = [reqs EXCEPT
                        ![r] = Reply(q, 404, FALSE, "Model not found")]
                   /\ UNCHANGED device_models
            ELSE /\ device_models' =
                      { m \in device_models : m.id # id } \cup {row}
                 /\ reqs' = [reqs EXCEPT ![r] = ReplyData(q, 200, <<row>>)]
  /\ UNCHANGED server

\* faulty variant, for sensitivity: the guard never holds
HasCommandsNever(commandCount) == FALSE

\* commandCount > 0
HasCommands(commandCount) == commandCount > 0

\* DELETE /api/models/:id, to the answer of the count query
DeleteModelCheck(r, id) ==
  /\ CanArrive(r)
  /\ LET q == [Arrive("DELETE /api/models/:id", id, <<>>, "")
                 EXCEPT !.commandCount = CountCommands(commands, id)]
     IN  reqs' = [reqs EXCEPT ![r] =
           IF HasCommands(q.commandCount)
             THEN Reply(q, 409, FALSE,
                        "Cannot delete model. It has N associated commands.")
           ELSE [q EXCEPT !.pc = "delete"]]
  /\ UNCHANGED <<tables, seqs>>
  /\ UNCHANGED server

\* DELETE /api/models/:id, the DELETE statement and the response
DeleteModelDelete(r) ==
  /\ reqs[r].kind = "DELETE /api/models/:id"
  /\ reqs[r].pc = "delete"
  /\ Answered
  /\ LET q == reqs[r]
         found == { m \in device_models : m.id = q.id }
         err == IF found # {}
                  THEN DeleteModelError(commands, sms_history, q.id)
                ELSE "none"
     IN  /\ UNCHANGED <<sms_messages, seqs>>
         /\ IF found = {}
              THEN /\ reqs' = [reqs EXCEPT
                        ![r] = Reply(q, 404, FALSE, "Model not found")]
                   /\ UNCHANGED <<device_models, commands, sms_history>>
            ELSE IF err # "none"
              THEN /\ reqs' = [reqs EXCEPT
                        ![r] = Reply(q, 500, FALSE, "Failed to delete model")]
                   /\ UNCHANGED <<device_models, commands, sms_history>>
            ELSE /\ device_models' = device_models \ found
                 /\ commands' =
                      AfterModelDelete(commands, q.id, CommandsFkOnDelete)
                 /\ sms_history' =
                      AfterModelDelete(sms_history, q.id, HistoryFkOnDelete)
                 /\ reqs' = [reqs EXCEPT ![r] =
                      ReplyData(q, 200, <<CHOOSE m \in found : TRUE>>)]
  /\ UNCHANGED server

\* GET /api/models: every model with its live command count
GetModels(r) ==
  /\ CanArrive(r)
  /\ reqs' = [reqs EXCEPT ![r] =
       ReplyRows(Arrive("GET /api/models", 0, <<>>, ""),
         { [id |-> m.id, name |-> m.name, description |-> m.description,
            command_count |-> CountCommands(commands, m.id)] :
              m \in device_models })]
  /\ UNCHANGED <<tables, seqs>>
  /\ UNCHANGED server

----------------------------------------------------------------------------
(* Command routes *)

\* GET /api/models/:modelId/commands
GetModelCommands(r, modelId) ==
  /\ CanArrive(r)
  /\ reqs' = [reqs EXCEPT ![r] =
       ReplyRows(Arrive("GET /api/models/:modelId/commands", modelId, <<>>, ""),
         { [id |-> c.id, model_id |-> c.model_id,
            command_text |-> c.command_text, description |-> c.description,
            model_name |-> m.name] :
              <<c, m>> \in { x \in commands \X device_models :
                               /\ x[1].model_id = x[2].id
                               /\ x[1].model_id = modelId } })]
  /\ UNCHANGED <<tables, seqs>>
  /\ UNCHANGED server

\* faulty variant, for sensitivity: the catch block without the 23505 case
PostCommandCatchGeneric(q, err) == Reply(q, 500, FALSE, "Failed to add command")

\* the catch block of POST /api/commands
PostCommandCatch(q, err) ==
  IF err = "23505"
    THEN Reply(q, 409, FALSE, "Command already exists for this model")
  ELSE Reply(q, 500, FALSE, "Failed to add command")

\* POST /api/commands, to the answer of the model check
PostCommandCheck(r, modelId, commandText, description) ==
  /\ CanArrive(r)
  /\ LET q == Arrive("POST /api/commands", modelId, commandText, description)
     IN  reqs' = [reqs EXCEPT ![r] =
           IF modelId = 0 \/ commandText = <<>> \/ Len(trim(commandText)) = 0
             THEN Reply(q, 400, FALSE, "Model ID and command text are required")
           ELSE IF ~ \E m \in device_models : m.id = modelId
             THEN Reply(q, 404, FALSE, "Model not found")
           ELSE [q EXCEPT !.pc = "insert"]]
  /\ UNCHANGED <<tables, seqs>>
  /\ UNCHANGED server

\* POST /api/commands, the INSERT statement and the response
PostCommandInsert(r) ==
  /\ reqs[r].kind = "POST /api/commands"
  /\ reqs[r].pc = "insert"
  /\ Answered
  /\ LET q == reqs[r]
         err == InsertCommandError(device_models, commands, q.id, trim(q.text))
         row == [id |-> seqs.commands, model_id |-> q.id,
                 command_text |-> trim(q.text),
                 description |-> OrNull(q.description)]
     IN  /\ seqs' = NextVal("commands")
         /\ commands' = IF err = "none" THEN commands \cup {row} ELSE commands
         /\ reqs' = [reqs EXCEPT ![r] =
              IF err = "none" THEN ReplyData(q, 201, <<row>>)
              ELSE PostCommandCatch(q, err)]
  /\ UNCHANGED <<device_models, sms_history, sms_messages>>
  /\ UNCHANGED server

\* the catch block of PUT /api/commands/:id
PutCommandCatch(q, err) == Reply(q, 500, FALSE, "Failed to update command")

\* PUT /api/commands/:id
PutCommand(r, id, commandText, description) ==
  /\ CanArrive(r)
  /\ LET q == Arrive("PUT /api/commands/:id", id, commandText, description)
         found == { c \in commands : c.id = id }
         err == UpdateCommandError(commands, id, trim(commandText))
         row == [id |-> id, model_id |-> (CHOOSE c \in found : TRUE).model_id,
                 command_text |-> trim(commandText),
                 description |-> OrNull(description)]
     IN  /\ UNCHANGED <<device_models, sms_history, sms_messages, seqs>>
         /\ IF commandText = <<>> \/ Len(trim(commandText)) = 0
              THEN /\ reqs' = [reqs EXCEPT
                        ![r] = Reply(q, 400, FALSE, "Command text is required")]
                   /\ UNCHANGED commands
            ELSE IF err # "none"
              THEN /\ UNCHANGED commands
                   /\ reqs' = [reqs EXCEPT ![r] = PutCommandCatch(q, err)]
            ELSE IF found = {}
              THEN /\ reqs' = [reqs EXCEPT
                        ![r] = Reply(q, 404, FALSE, "Command not found")]
                   /\ UNCHANGED commands
            ELSE /\ commands' = (commands \ found) \cup {row}
                 /\ reqs' = [reqs EXCEPT ![r] = ReplyData(q, 200, <<row>>)]
  /\ UNCHANGED server

\* DELETE /api/commands/:id
DeleteCommand(r, id) ==
  /\ CanArrive(r)
  /\ LET q == Arrive("DELETE /api/commands/:id", id, <<>>, "")
         found == { c \in commands : c.id = id }
     IN  /\ commands' = commands \ found
         /\ reqs' = [reqs EXCEPT ![r] =
              IF found = {} THEN Reply(q, 404, FALSE, "Command not found")
              ELSE ReplyData(q, 200, <<CHOOSE c \in found : TRUE>>)]
  /\ UNCHANGED <<device_models, sms_history, sms_messages, seqs>>
  /\ UNCHANGED server

----------------------------------------------------------------------------
(* Send workflow *)

\* faulty variant, for sensitivity: a failure that carries no error code
sendSMSCommandNoCode(phoneNumber, command, modelName, success) ==
  [success |-> success, details |-> "Command sent successfully to device",
   command |-> command, modelName |-> modelName,
   messageId |-> "msg_<now>_<random>", errorCode |-> ""]

\* sendSMSCommand: the mock's record; `success` is its Math.random() > 0.1
sendSMSCommand(phoneNumber, command, modelName, success) ==
  IF success
    THEN [success |-> TRUE, details |-> "Command sent successfully to device",
          command |-> command, modelName |-> modelName,
          messageId |-> "msg_<now>_<random>", errorCode |-> ""]
  ELSE [success |-> FALSE, details |-> "SMS delivery failed - network error",
        command |-> <<>>, modelName |-> <<>>,
        messageId |-> "", errorCode |-> "NETWORK_ERROR"]

\* smsResult.success ? 'sent' : 'failed'
StatusOf(smsResult) == IF smsResult.success THEN "sent" ELSE "failed"

\* faulty variant, for sensitivity: the filter keeps every entry
CountStatusAny(results, status) == Len(results)

\* results.filter(r => r.status === status).length
CountStatus(results, status) ==
  Cardinality({ k \in DOMAIN results : results[k].status = status })

\* the response after the loop: successCount, failCount, summary
SendResponse(q) ==
  LET successCount == CountStatus(q.results, "sent")
      failCount == CountStatus(q.results, "failed") + Len(q.errors)
  IN  [q EXCEPT !.pc = "done", !.status = 200,
                !.success = successCount > 0,
                !.summary = [total |-> Len(q.phoneNumbers),
                             sent |-> successCount, failed |-> failCount]]

\* faulty variant, for sensitivity: the loop does not move to the next number
NextNumberRepeat(q) ==
  IF Len(q.results) + Len(q.errors) >= Len(q.phoneNumbers) THEN SendResponse(q)
  ELSE [q EXCEPT !.pc = "dispatch"]

\* the end of one pass of `for (const phone of phoneNumbers)`
NextNumber(q) ==
  IF q.i = Len(q.phoneNumbers) THEN SendResponse(q)
  ELSE [q EXCEPT !.i = @ + 1, !.pc = "dispatch"]

\* results.push({phone, status, id, details}) after the INSERT
PushResult(q, row) ==
  NextNumber([q EXCEPT !.results =
    Append(@, [phone |-> row.phone_number, status |-> row.status,
               id |-> row.id, details |-> row.details])])

\* faulty variant, for sensitivity: the error of one number ends the request
PushErrorAbort(q, phone, err) == Reply(q, 500, FALSE, "Failed to send SMS")

\* the catch block inside the loop: errors.push({phone, error})
PushError(q, phone, err) ==
  NextNumber([q EXCEPT !.errors =
    Append(@, [phone |-> trim(phone), error |-> err])])

\* faulty variant, for sensitivity: the pattern tested on the phone as given, not trimmed
InvalidPhonesUntrimmed(phoneNumbers) ==
  SelectSeq(phoneNumbers, LAMBDA p : ~ phoneRegexTest(p))

\* the phone-number validation of POST /api/sms/send
InvalidPhones(phoneNumbers) == FilterInvalid(phoneNumbers)

\* faulty variant, for sensitivity: the phone stored as given
cleanPhoneRaw(phone) == phone

\* const cleanPhone = phone.trim()
cleanPhone(phone) == trim(phone)

\* an element of the phoneNumbers array that is not a string, such as the
\* number 123: it has no trim method
JsonNumber == <<"#123">>

\* typeof phone === "string", the condition for phone.trim() to be defined
IsString(phone) == phone # JsonNumber

\* !phoneNumbers || !Array.isArray(phoneNumbers) || phoneNumbers.length === 0
NotAnArray(type, items) == type # "array" \/ Len(items) = 0

\* POST /api/sms/send, to the answer of the model check; body.phoneNumbers
\* is a JSON value: its type and, for an array, its items
PostSmsSend(r, phoneNumbers, modelId, commandText, notes) ==
  /\ CanArrive(r)
  /\ LET items == phoneNumbers.items
         q == [Arrive("POST /api/sms/send", modelId, commandText, "")
                 EXCEPT !.phoneNumbersType = phoneNumbers.type,
                        !.phoneNumbers = items, !.notes = notes]
         invalidPhones == InvalidPhones(items)
         model == { m \in device_models : m.id = modelId }
     IN  reqs' = [reqs EXCEPT ![r] =
           IF NotAnArray(phoneNumbers.type, items)
             THEN Reply(q, 400, FALSE, "Phone numbers array is required")
           ELSE IF modelId = 0 \/ commandText = <<>>
                     \/ Len(trim(commandText)) = 0
             THEN Reply(q, 400, FALSE, "Model ID and command text are required")
           ELSE IF \E k \in DOMAIN items : ~ IsString(items[k])
             \* phone.trim() throws a TypeError, caught by the outer catch
             THEN Reply(q, 500, FALSE, "Failed to send SMS")
           ELSE IF Len(invalidPhones) > 0
             THEN [Reply(q, 400, FALSE, "Invalid phone numbers detected")
                     EXCEPT !.invalidPhones = invalidPhones]
           ELSE IF model = {}
             THEN Reply(q, 404, FALSE, "Model not found")
           ELSE [q EXCEPT !.pc = "dispatch", !.i = 1,
                          !.modelName = (CHOOSE m \in model : TRUE).name]]
  /\ UNCHANGED <<tables, seqs>>
  /\ UNCHANGED server

\* pool.query on a pool that gracefulShutdown has ended: the promise is
\* rejected with 'Cannot use a pool after calling end on the pool'
PoolEnded == "pool ended"

\* await sendSMSCommand(cleanPhone, commandText, modelName), then the INSERT
\* is handed to the pool
SendDispatch(r) ==
  /\ reqs[r].kind = "POST /api/sms/send"
  /\ reqs[r].pc = "dispatch"
  /\ Running
  /\ \E success \in BOOLEAN :
       LET q == reqs[r]
           sent == [q EXCEPT !.smsResult =
                      sendSMSCommand(cleanPhone(q.phoneNumbers[q.i]), q.text,
                                     q.modelName, success)]
       IN  reqs' = [reqs EXCEPT ![r] =
             IF server.pool = "open" THEN [sent EXCEPT !.pc = "insert"]
             ELSE PushError(sent, q.phoneNumbers[q.i], PoolEnded)]
  /\ UNCHANGED <<tables, seqs>>
  /\ UNCHANGED server

\* a text column holding NULL; texts are sequences of characters
NullText == <<"<NULL>">>

\* notes || null
OrNullText(v) == IF v = <<>> THEN NullText ELSE v

\* the row of INSERT INTO sms_history ... VALUES ($1, $2, $3, $4, NOW(), $5,
\* $6, $7) RETURNING *. Statements are atomic steps of the store, so the
\* clock an insert reads is ordered as the sequence value it draws: sent_at
\* is that value
HistoryRow(id, phoneNumber, modelId, commandText, smsResult, notes) ==
  [id |-> id, phone_number |-> phoneNumber, model_id |-> modelId,
   command_text |-> commandText, status |-> StatusOf(smsResult),
   sent_at |-> id, details |-> OrNull(smsResult.details),
   notes |-> OrNullText(notes), response_data |-> smsResult]

\* INSERT INTO sms_history for the current number, then results.push or the
\* catch block, and after the last number the response
SendInsert(r) ==
  /\ reqs[r].kind = "POST /api/sms/send"
  /\ reqs[r].pc = "insert"
  /\ Answered
  /\ LET q == reqs[r]
         phone == q.phoneNumbers[q.i]
         err == InsertHistoryError(device_models, cleanPhone(phone), q.id,
                                   trim(q.text))
         row == HistoryRow(seqs.sms_history, cleanPhone(phone), q.id,
                           trim(q.text), q.smsResult, q.notes)
     IN  /\ seqs' = NextVal("sms_history")
         /\ sms_history' =
              IF err = "none" THEN sms_history \cup {row} ELSE sms_history
         /\ reqs' = [reqs EXCEPT ![r] =
              IF err = "none" THEN PushResult(q, row)
              ELSE PushError(q, phone, err)]
  /\ UNCHANGED <<device_models, commands, sms_messages>>
  /\ UNCHANGED server

----------------------------------------------------------------------------
(* History query *)

UpperCase ==
  <<"A", "B", "C", "D", "E", "F", "G", "H", "I", "J", "K", "L", "M",
    "N", "O", "P", "Q", "R", "S", "T", "U", "V", "W", "X", "Y", "Z">>

LowerCase ==
  <<"a", "b", "c", "d", "e", "f", "g", "h", "i", "j", "k", "l", "m",
    "n", "o", "p", "q", "r", "s", "t", "u", "v", "w", "x", "y", "z">>

\* case folding of ILIKE
Lower(s) ==
  [k \in DOMAIN s |->
     IF \E j \in DOMAIN UpperCase : UpperCase[j] = s[k]
       THEN LowerCase[CHOOSE j \in DOMAIN UpperCase : UpperCase[j] = s[k]]
     ELSE s[k]]

\* text LIKE pattern: "%" stands for any run of characters, "_" for one
RECURSIVE LikeMatch(_, _)
LikeMatch(text, pattern) ==
  IF pattern = <<>> THEN text = <<>>
  ELSE IF Head(pattern) = "%"
    THEN \/ LikeMatch(text, Tail(pattern))
         \/ text # <<>> /\ LikeMatch(Tail(text), pattern)
  ELSE /\ text # <<>>
       /\ Head(pattern) = "_" \/ Head(pattern) = Head(text)
       /\ LikeMatch(Tail(text), Tail(pattern))

\* column ILIKE `%${value}%`; on a NULL column the result is not true
ILikeContains(column, value) ==
  /\ column # NullText
  /\ LikeMatch(Lower(column), <<"%">> \o Lower(value) \o <<"%">>)

\* CASE WHEN h.status = 'sent' THEN ... END as status_icon
StatusIcon(status) ==
  CASE status = "sent" -> "check mark"
    [] status = "failed" -> "cross mark"
    [] status = "pending" -> "hourglass"
    [] OTHER -> "question mark"

\* FROM sms_history h LEFT JOIN device_models m ON h.model_id = m.id:
\* h.*, m.name as model_name, status_icon
LeftJoinModel(h, models) ==
  [id |-> h.id, phone_number |-> h.phone_number, model_id |-> h.model_id,
   command_text |-> h.command_text, status |-> h.status,
   sent_at |-> h.sent_at, details |-> h.details, notes |-> h.notes,
   response_data |-> h.response_data,
   model_name |-> IF \E m \in models : m.id = h.model_id
                    THEN (CHOOSE m \in models : m.id = h.model_id).name
                  ELSE NullText,
   status_icon |-> StatusIcon(h.status)]

\* the conditions pushed for the filters supplied, in the order of the code
Conditions(filters) ==
  (IF filters.status # "" THEN <<"status">> ELSE <<>>)
    \o (IF filters.modelId # 0 THEN <<"modelId">> ELSE <<>>)
    \o (IF filters.phoneNumber # <<>> THEN <<"phoneNumber">> ELSE <<>>)
    \o (IF filters.dateFrom # 0 THEN <<"dateFrom">> ELSE <<>>)
    \o (IF filters.dateTo # 0 THEN <<"dateTo">> ELSE <<>>)
    \o (IF filters.search # <<>> THEN <<"search">> ELSE <<>>)

\* one condition of the WHERE clause on a joined row
Holds(condition, row, filters) ==
  CASE condition = "status" -> row.status = filters.status
    [] condition = "modelId" -> row.model_id = filters.modelId
    [] condition = "phoneNumber" ->
         ILikeContains(row.phone_number, filters.phoneNumber)
    [] condition = "dateFrom" -> row.sent_at >= filters.dateFrom
    [] condition = "dateTo" -> row.sent_at <= filters.dateTo
    [] condition = "search" ->
         \/ ILikeContains(row.command_text, filters.search)
         \/ ILikeContains(row.notes, filters.search)
         \/ ILikeContains(row.model_name, filters.search)

\* faulty variant, for sensitivity: the conditions joined with OR
WhereClauseOr(conditions, row, filters) ==
  \/ conditions = <<>>
  \/ \E k \in DOMAIN conditions : Holds(conditions[k], row, filters)

\* 'WHERE ' + conditions.join(' AND '), or no clause without conditions
WhereClause(conditions, row, filters) ==
  \A k \in DOMAIN conditions : Holds(conditions[k], row, filters)

\* the rows both queries select from
HistoryWhere(history, models, filters) ==
  { row \in { LeftJoinModel(h, models) : h \in history } :
      WhereClause(Conditions(filters), row, filters) }

\* ORDER BY h.sent_at DESC
RECURSIVE OrderBySentAtDesc(_)
OrderBySentAtDesc(rows) ==
  IF rows = {} THEN <<>>
  ELSE LET first == CHOOSE x \in rows : \A y \in rows : x.sent_at >= y.sent_at
       IN  <<first>> \o OrderBySentAtDesc(rows \ {first})

\* LIMIT $n OFFSET $m
LimitOffset(ordered, limit, offset) ==
  SubSeq(ordered, offset + 1,
         IF offset + limit < Len(ordered) THEN offset + limit
         ELSE Len(ordered))

\* Math.ceil(total / limit), limit > 0
Ceil(total, limit) == (total + limit - 1) \div limit

\* GET /api/sms/history, to the answer of the page query; a negative OFFSET
\* or LIMIT makes the query fail and the catch block answers 500
GetHistoryPage(r, page, limit, filters) ==
  /\ CanArrive(r)
  /\ LET q == [Arrive("GET /api/sms/history", 0, <<>>, "")
                 EXCEPT !.page = page, !.limit = limit, !.filters = filters]
         offset == (page - 1) * limit
         selected == HistoryWhere(sms_history, device_models, filters)
     IN  reqs' = [reqs EXCEPT ![r] =
           IF offset < 0 \/ limit < 0
             THEN Reply(q, 500, FALSE, "Failed to fetch SMS history")
           ELSE [q EXCEPT !.pc = "count",
                          !.data = LimitOffset(OrderBySentAtDesc(selected),
                                               limit, offset)]]
  /\ UNCHANGED <<tables, seqs>>
  /\ UNCHANGED server

\* faulty variant, for sensitivity: COUNT(DISTINCT h.phone_number)
CountDistinctPhones(selected) ==
  Cardinality({ row.phone_number : row \in selected })

\* SELECT COUNT(*) as total
CountRows(selected) == Cardinality(selected)

\* the count query with the same WHERE clause, and the response
GetHistoryCount(r) ==
  /\ reqs[r].kind = "GET /api/sms/history"
  /\ reqs[r].pc = "count"
  /\ Answered
  /\ LET q == reqs[r]
         total == CountRows(HistoryWhere(sms_history, device_models,
                                         q.filters))
     IN  reqs' = [reqs EXCEPT ![r] =
           [q EXCEPT !.pc = "done", !.status = 200, !.success = TRUE,
                     !.pagination =
                       [page |-> q.page, limit |-> q.limit, total |-> total,
                        pages |-> IF q.limit > 0 THEN Ceil(total, q.limit)
                                  ELSE 0,
                        hasNext |-> q.page * q.limit < total,
                        hasPrev |-> q.page > 1]]]
  /\ UNCHANGED <<tables, seqs>>
  /\ UNCHANGED server

----------------------------------------------------------------------------
(* Legacy and read-only routes *)

\* POST /api/sms: a row of the legacy table sms_messages
PostSms(r, phone, message, sender) ==
  /\ CanArrive(r)
  /\ LET q == Arrive("POST /api/sms", 0, phone, message)
         row == [id |-> seqs.sms_messages, phone |-> phone,
                 message |-> message,
                 sender |-> IF sender = "" THEN "system" ELSE sender]
     IN  IF phone = <<>> \/ message = ""
           THEN /\ reqs' = [reqs EXCEPT ![r] =
                     Reply(q, 400, FALSE, "Phone and message are required")]
                /\ UNCHANGED <<tables, seqs>>
         ELSE /\ seqs' = NextVal("sms_messages")
              /\ sms_messages' =
                   IF Len(phone) > PhoneNumberMaxLen THEN sms_messages
                   ELSE sms_messages \cup {row}
              /\ reqs' = [reqs EXCEPT ![r] =
                   IF Len(phone) > PhoneNumberMaxLen
                     THEN Reply(q, 500, FALSE, "Failed to send SMS")
                   ELSE ReplyData(q, 201, <<row>>)]
              /\ UNCHANGED <<device_models, commands, sms_history>>
  /\ UNCHANGED server

\* the routes that only SELECT from sms_history (the PDF stub selects nothing)
ReadRoutes ==
  {"GET /api/sms", "GET /api/sms/stats", "GET /api/reports/csv",
   "GET /api/reports/pdf"}

ReadOnly(r, route) ==
  /\ CanArrive(r)
  /\ reqs' = [reqs EXCEPT ![r] =
       ReplyRows(Arrive(route, 0, <<>>, ""),
                 IF route = "GET /api/reports/pdf" THEN {} ELSE sms_history)]
  /\ UNCHANGED <<tables, seqs>>
  /\ UNCHANGED server

----------------------------------------------------------------------------
(* The requests tried *)

\* path ids and modelId values: 0 is a missing (falsy) modelId, 1 is TK103
\* with four commands, 5 is TK303 with none, 9 names no model
ModelIdInputs == {0, 1, 5, 9}

\* 1 and 2 are commands of TK103, 99 names no command
CommandIdInputs == {1, 2, 99}

NewName == <<"X", "1">>

ModelNameInputs ==
  { <<" ">>, NewName, <<" ">> \o NewName \o <<" ">>,
    seedModels[2].name, Rep("n", NameMaxLen + 1) }

NewCommand == <<"G", "O">>

CommandTextInputs ==
  { <<" ">>, <<" ">> \o NewCommand \o <<" ">>,
    sampleCommands[1].command, Rep("c", CommandTextMaxLen + 1) }

DescriptionInputs == {"", "desc"}

\* "+5511999999999"
PhoneA == <<"+">> \o Rep("5", 2) \o Rep("1", 2) \o Rep("9", 9)

\* " +55 (11) 98888-77770 ": twenty characters between two blanks, so it
\* matches the pattern, and fits phone_number, only once trimmed
PhoneB ==
  <<" ", "+", "5", "5", " ", "(", "1", "1", ")", " ", "9">> \o Rep("8", 4)
    \o <<"-">> \o Rep("7", 4) \o <<"0", " ">>

\* ten characters, one of them a letter
PhoneLetter == Rep("9", 9) \o <<"x">>

PhoneInputs == {PhoneA, PhoneB, PhoneLetter}

RECURSIVE Batches(_)
Batches(n) ==
  IF n = 0 THEN {<<>>}
  ELSE LET shorter == Batches(n - 1)
       IN  shorter \cup { Append(b, p) : b \in shorter, p \in PhoneInputs }

PhoneBatchInputs == Batches(MaxBatch)

\* arrays holding an element that is not a string
NonStringBatchInputs ==
  {<<JsonNumber>>, <<PhoneA, JsonNumber>>, <<JsonNumber, PhoneLetter>>}

\* values of body.phoneNumbers: arrays, a missing field, a bare string
PhoneNumbersInputs ==
  { [type |-> "array", items |-> b] :
      b \in PhoneBatchInputs \cup NonStringBatchInputs }
    \cup { [type |-> t, items |-> <<>>] : t \in {"undefined", "string"} }

\* query strings of GET /api/sms/history: page 0 gives a negative OFFSET;
\* 50 is the default limit
PageInputs == {0, 1, 2, 3}

LimitInputs == {1, 2, 50}

\* a filter is left out (falsy) or has a value: "9999" is part of PhoneA
\* only, "_" is part of no phone number, "tk3" is part of the model name
\* TK303 whatever the case
FilterInputs ==
  [status : {"", "failed"}, modelId : {0, 5},
   phoneNumber : {<<>>, Rep("9", 4), <<"_">>}, dateFrom : {0, 2},
   dateTo : {0, 3},
   search : {<<>>, <<"t", "k", "3">>}]

Next ==
  \E r \in Reqs :
    \/ \E name \in ModelNameInputs : PostModel(r, name, "desc")
    \/ \E id \in ModelIdInputs \ {0}, name \in ModelNameInputs :
         PutModel(r, id, name, "")
    \/ \E id \in ModelIdInputs \ {0} : DeleteModelCheck(r, id)
    \/ DeleteModelDelete(r)
    \/ GetModels(r)
    \/ \E id \in ModelIdInputs \ {0} : GetModelCommands(r, id)
    \/ \E id \in ModelIdInputs, text \in CommandTextInputs,
          d \in DescriptionInputs : PostCommandCheck(r, id, text, d)
    \/ PostCommandInsert(r)
    \/ \E id \in CommandIdInputs, text \in CommandTextInputs :
         PutCommand(r, id, text, "desc")
    \/ \E id \in CommandIdInputs : DeleteCommand(r, id)
    \/ \E batch \in PhoneNumbersInputs, id \in {0, 5, 9},
          text \in {NewCommand, Rep("c", CommandTextMaxLen + 1)} :
         PostSmsSend(r, batch, id, text, <<>>)
    \/ SendDispatch(r)
    \/ SendInsert(r)
    \/ \E phone \in {<<>>, PhoneA, Rep("9", PhoneNumberMaxLen + 1)} :
         PostSms(r, phone, "hi", "")
    \/ \E page \in {1, 2},
          filters \in {NoFilters, [NoFilters EXCEPT !.status = "failed"]} :
         GetHistoryPage(r, page, 1, filters)
    \/ GetHistoryCount(r)
    \/ \E route \in ReadRoutes : ReadOnly(r, route)

Spec == Init /\ [][Next]_vars

----------------------------------------------------------------------------
(* Startup: initializeDatabase *)

\* faulty variant, for sensitivity: a plain INSERT, without ON CONFLICT
NameConflictNever(models, name) == FALSE

\* ON CONFLICT (name): a row of device_models has the name
NameConflict(models, name) == \E m \in models : m.name = name

\* INSERT INTO device_models ... VALUES (six rows) ON CONFLICT (name) DO
\* NOTHING, from the k-th row on: every proposed row draws an id, and a row
\* whose name is taken is skipped
RECURSIVE InsertSeedModels(_, _, _)
InsertSeedModels(models, seq, k) ==
  IF k > Len(seedModels) THEN [rows |-> models, seq |-> seq]
  ELSE LET row == [id |-> seq, name |-> seedModels[k].name,
                   description |-> seedModels[k].description]
       IN  InsertSeedModels(IF NameConflict(models, row.name) THEN models
                            ELSE models \cup {row},
                            seq + 1, k + 1)

\* the loops over sampleCommands, from the k-th command on: the id of the
\* model is selected by name, and each command is inserted with ON CONFLICT
\* (model_id, command_text) DO NOTHING
RECURSIVE InsertSampleCommands(_, _, _, _)
InsertSampleCommands(models, cmds, seq, k) ==
  IF k > Len(sampleCommands) THEN [rows |-> cmds, seq |-> seq]
  ELSE IF ~ \E m \in models : m.name = sampleCommands[k].model
    THEN InsertSampleCommands(models, cmds, seq, k + 1)
  ELSE LET row == [id |-> seq,
                   model_id |-> ModelIdByName(models, sampleCommands[k].model),
                   command_text |-> sampleCommands[k].command,
                   description |-> sampleCommands[k].description]
       IN  InsertSampleCommands(
             models,
             IF \E c \in cmds : /\ c.model_id = row.model_id
                                /\ c.command_text = row.command_text
               THEN cmds ELSE cmds \cup {row},
             seq + 1, k + 1)

\* initializeDatabase, run by startServer before app.listen: CREATE TABLE
\* IF NOT EXISTS keeps the tables that exist, then the seed rows
InitializeDatabase ==
  /\ server.phase = "init"
  /\ server.exit = "running"
  /\ LET m == InsertSeedModels(device_models, seqs.device_models, 1)
         c == InsertSampleCommands(m.rows, commands, seqs.commands, 1)
     IN  /\ device_models' = m.rows
         /\ commands' = c.rows
         /\ seqs' = [seqs EXCEPT !.device_models = m.seq, !.commands = c.seq]
  /\ server' = [server EXCEPT !.phase = "listening", !.runs = @ + 1]
  /\ UNCHANGED <<sms_history, sms_messages, reqs>>

\* the process is started again on the same database
Restart ==
  /\ server.phase = "listening"
  /\ server.runs < MaxRuns
  /\ server' = [Listening EXCEPT !.phase = "init", !.runs = server.runs,
                                 !.now = server.now]
  /\ reqs' = [r \in Reqs |-> NoReq]
  /\ UNCHANGED <<tables, seqs>>

\* what earlier requests may have left of the seeded store: models deleted
\* with their commands, TK102 renamed, commands of GT06 deleted, a command
\* of ST901 given another text, a send to GT06 in the history
LeftStores ==
  { [device_models |->
       { IF m.id = 2 /\ renamed THEN [m EXCEPT !.name = NewName] ELSE m :
           m \in { x \in SeedModelRows : x.id \notin deleted } },
     commands |->
       { IF c.id = 13 /\ retexted THEN [c EXCEPT !.command_text = NewCommand]
         ELSE c :
           c \in { x \in SeedCommandRows :
                     x.model_id \notin deleted /\ x.id \notin removed } },
     sms_history |-> history] :
       deleted \in SUBSET {1, 5, 6}, renamed \in BOOLEAN,
       removed \in SUBSET {9, 10}, retexted \in BOOLEAN,
       history \in { {}, { HistoryRow(1, PhoneA, 3, NewCommand,
                                      sendSMSCommand(PhoneA, NewCommand,
                                                     seedModels[3].name, TRUE),
                                      <<>>) } } }

\* a start of the process on an empty database, or on a store left by
\* earlier runs
StartInit ==
  /\ sms_messages = {}
  /\ reqs = [r \in Reqs |-> NoReq]
  /\ server = [Listening EXCEPT !.phase = "init"]
  /\ \/ /\ device_models = {} /\ commands = {} /\ sms_history = {}
        /\ seqs = [device_models |-> 1, commands |-> 1, sms_history |-> 1,
                   sms_messages |-> 1]
     \/ \E s \in LeftStores :
          /\ device_models = s.device_models
          /\ commands = s.commands
          /\ sms_history = s.sms_history
          /\ seqs = [device_models |-> Len(seedModels) + 1,
                     commands |-> Len(sampleCommands) + 1,
                     sms_history |-> 2, sms_messages |-> 1]

StartNext == InitializeDatabase \/ Restart

StartSpec == StartInit /\ [][StartNext]_vars

----------------------------------------------------------------------------
(* The history query on stores of several rows *)

\* rows that earlier sends have stored: to TK303 and to TK103, sent and
\* failed, one with notes
StoredHistory ==
  { HistoryRow(1, PhoneA, 5, NewCommand,
               sendSMSCommand(PhoneA, NewCommand, seedModels[5].name, TRUE),
               <<>>),
    HistoryRow(2, trim(PhoneB), 1, sampleCommands[1].command,
               sendSMSCommand(trim(PhoneB), sampleCommands[1].command,
                              seedModels[1].name, FALSE),
               <<"T", "k", "3", " ", "?">>),
    HistoryRow(3, PhoneA, 5, NewCommand,
               sendSMSCommand(PhoneA, NewCommand, seedModels[5].name, FALSE),
               <<>>) }

\* the seeded store after sends that left some of these rows
HistoryInit ==
  /\ device_models = SeedModelRows
  /\ commands = SeedCommandRows
  /\ sms_history \in SUBSET StoredHistory
  /\ sms_messages = {}
  /\ seqs = [device_models |-> Len(seedModels) + 1,
             commands |-> Len(sampleCommands) + 1,
             sms_history |-> Cardinality(StoredHistory) + 1,
             sms_messages |-> 1]
  /\ reqs = [r \in Reqs |-> NoReq]
  /\ server = Listening

\* one history query, and one send that may store a row between its two
\* statements
HistoryNext ==
  \/ \E page \in PageInputs, limit \in LimitInputs, filters \in FilterInputs :
       GetHistoryPage(1, page, limit, filters)
  \/ GetHistoryCount(1)
  \/ PostSmsSend(2, [type |-> "array", items |-> <<PhoneA>>], 5, NewCommand,
                 <<>>)
  \/ SendDispatch(2)
  \/ SendInsert(2)

HistorySpec == HistoryInit /\ [][HistoryNext]_vars

----------------------------------------------------------------------------
(* Properties of the send workflow *)

SendReqs == { r \in Reqs : reqs[r].kind = "POST /api/sms/send" }

\* the phone pattern as the API documents it: between its first and last
\* non-blank character a number has 10 to 20 characters, each a digit, "+",
\* "-", a parenthesis or a blank
NonBlank(p) == { k \in 1..Len(p) : p[k] # " " }

Trimmed(p) ==
  LET nb == NonBlank(p)
  IN  IF nb = {} THEN <<>>
      ELSE SubSeq(p, CHOOSE k \in nb : \A j \in nb : k <= j,
                     CHOOSE k \in nb : \A j \in nb : k >= j)

FailsPattern(p) ==
  LET t == Trimmed(p)
  IN  ~ /\ Len(t) \in 10..20
        /\ \A k \in 1..Len(t) : t[k] \in Digit \cup {"+", "-", "(", ")", " "}

Offending(phoneNumbers) == SelectSeq(phoneNumbers, FailsPattern)

\* the batch of the request holds strings only
StringBatch(q) == \A k \in DOMAIN q.phoneNumbers : IsString(q.phoneNumbers[k])

\* the sms_history rows a request reports in its results list
RowsOf(r) ==
  { h \in sms_history :
      \E k \in DOMAIN reqs[r].results : reqs[r].results[k].id = h.id }

\* every sms_history row is the row of one entry of one results list
Accounted ==
  \A h \in sms_history :
    Cardinality({ x \in Reqs \X (1..MaxBatch + 1) :
                   /\ x[2] \in DOMAIN reqs[x[1]].results
                   /\ reqs[x[1]].results[x[2]].id = h.id }) = 1

\* the loop of the request was never entered and its stub never called
NeverDispatched(r) ==
  /\ reqs[r].i = 0
  /\ reqs[r].smsResult = NoResult
  /\ reqs[r].results = <<>>
  /\ reqs[r].errors = <<>>
  /\ RowsOf(r) = {}

\* C1 as stated: a send request with at least one number failing the phone
\* pattern is answered 400 with exactly the offending numbers listed, the
\* stub is never called and no sms_history row is created.
C1_Original ==
  \A r \in SendReqs :
    LET offending == Offending(reqs[r].phoneNumbers)
    IN  offending # <<>> =>
          /\ reqs[r].pc = "done"
          /\ reqs[r].status = 400
          /\ reqs[r].invalidPhones = offending
          /\ NeverDispatched(r)
          /\ Accounted

\* C1 amended: a send request (an array of strings) with at least one number
\* failing the phone pattern is answered 400, the stub is never called and
\* no sms_history row is created; the response lists exactly the offending
\* numbers when modelId and a non-blank commandText are supplied, and is
\* the "Model ID and command text are required" error without a list
\* otherwise.
C1_InvalidBatchRejected ==
  \A r \in SendReqs :
    LET offending == Offending(reqs[r].phoneNumbers)
    IN  offending # <<>> /\ StringBatch(reqs[r]) =>
          /\ reqs[r].pc = "done"
          /\ reqs[r].status = 400
          /\ NeverDispatched(r)
          /\ Accounted
          /\ IF reqs[r].id # 0 /\ \E k \in DOMAIN reqs[r].text :
                                     reqs[r].text[k] # " "
               THEN /\ reqs[r].error = "Invalid phone numbers detected"
                    /\ reqs[r].invalidPhones = offending
             ELSE /\ reqs[r].error = "Model ID and command text are required"
                  /\ reqs[r].invalidPhones = <<>>

\* a batch with a valid and an invalid number was rejected with the list of
\* the invalid one, while another send has stored a row
C1_Witness ==
  \E r \in SendReqs :
    /\ reqs[r].status = 400
    /\ reqs[r].invalidPhones = <<PhoneLetter>>
    /\ reqs[r].phoneNumbers = <<PhoneB, PhoneLetter>>
    /\ sms_history # {}

\* the numbers of a batch that match the phone pattern
ValidCount(phoneNumbers) == Len(phoneNumbers) - Len(Offending(phoneNumbers))

ModelExists(id) == \E m \in device_models : m.id = id

IsBlank(text) == \A k \in DOMAIN text : text[k] = " "

\* C2 as stated: a send with an existing model and a non-empty command text
\* creates as many sms_history rows as the batch has syntactically valid
\* numbers.
C2_Original ==
  \A r \in SendReqs :
    ( /\ reqs[r].pc = "done"
      /\ ModelExists(reqs[r].id)
      /\ ~ IsBlank(reqs[r].text) ) =>
        Cardinality(RowsOf(r)) = ValidCount(reqs[r].phoneNumbers)

\* C2 amended: a send creates no row when any number of the batch is
\* invalid (the request is rejected); a send answered 200 creates exactly
\* the rows of its results list, batch length minus the per-number errors
\* of them; when moreover the command text has at most 255 characters and
\* the model is not deleted during the send, that is one row per number.
C2_RowsCreated ==
  /\ Accounted
  /\ \A r \in SendReqs :
       LET q == reqs[r]
       IN  q.pc = "done" =>
             /\ q.status # 200 => RowsOf(r) = {} /\ q.results = <<>>
             /\ Offending(q.phoneNumbers) # <<>> =>
                  \/ q.status = 400
                  \/ q.status = 500 /\ ~ StringBatch(q)
             /\ q.status = 200 =>
                  /\ ValidCount(q.phoneNumbers) = Len(q.phoneNumbers)
                  /\ Cardinality(RowsOf(r)) = Len(q.results)
                  /\ Len(q.results) = Len(q.phoneNumbers) - Len(q.errors)
                  /\ ( Len(q.text) <= CommandTextMaxLen /\ ModelExists(q.id) )
                       => /\ q.errors = <<>>
                          /\ Cardinality(RowsOf(r)) = Len(q.phoneNumbers)

\* a batch of two valid numbers, one of them padded, has given two rows
C2_Witness ==
  \E r \in SendReqs :
    /\ reqs[r].status = 200
    /\ reqs[r].phoneNumbers = <<PhoneA, PhoneB>>
    /\ Cardinality(RowsOf(r)) = 2

\* occurrences of phone p in a list of {phone, ...} entries
Occ(entries, p) ==
  Cardinality({ k \in DOMAIN entries : entries[k].phone = p })

\* C3: an error caught for one number does not end the batch: while the
\* loop runs, the numbers before the current one are each in results or in
\* errors; a send that entered its loop ends with 200 after the last
\* number, every number of the batch is in exactly one of results (its row
\* stored) and errors, and results.length + errors.length is the batch
\* length.
C3_BatchNotAborted ==
  \A r \in SendReqs :
    LET q == reqs[r]
        n == Len(q.phoneNumbers)
    IN  /\ q.pc \in {"dispatch", "insert"} =>
             /\ q.i \in 1..n
             /\ Len(q.results) + Len(q.errors) = q.i - 1
             /\ q.status = 0
        /\ q.pc = "insert" => q.smsResult # NoResult
        /\ (q.pc = "done" /\ (q.i >= 1 \/ q.errors # <<>>)) =>
             /\ q.status = 200
             /\ q.i = n
             /\ Len(q.results) + Len(q.errors) = n
             /\ Cardinality(RowsOf(r)) = Len(q.results)
             /\ \A j \in 1..n :
                  LET p == Trimmed(q.phoneNumbers[j])
                  IN  Occ(q.results, p) + Occ(q.errors, p) =
                        Cardinality({ k \in 1..n :
                                       Trimmed(q.phoneNumbers[k]) = p })

\* the model was deleted between the model check and the first insert: the
\* first number failed on the foreign key and the second was still processed
C3_Witness ==
  \E r \in SendReqs :
    /\ reqs[r].pc = "done"
    /\ Len(reqs[r].phoneNumbers) = 2
    /\ Len(reqs[r].errors) = 2
    /\ reqs[r].errors[1].error = "23503"
    /\ reqs[r].smsResult.success

----------------------------------------------------------------------------
(* Properties of model deletion and of the history log *)

IsDeleteModel(q) == q.kind = "DELETE /api/models/:id"

\* the commands of a model, counted on the table itself
CommandsOf(id) == { c \in commands : c.model_id = id }

\* the step in which request r executes its DELETE FROM device_models
DeleteStatementStep(r) ==
  /\ IsDeleteModel(reqs[r])
  /\ reqs[r].pc = "delete"
  /\ reqs'[r].pc = "done"

\* C4: a DELETE /api/models/:id arriving while at least one command
\* references the model is answered 409 with the number of those commands
\* in its message, and the model row and the command rows stay as they are;
\* an answered request does nothing more.
C4_DeleteBlocked ==
  [][\A r \in Reqs :
       /\ ( /\ reqs[r].kind = "idle"
            /\ IsDeleteModel(reqs'[r])
            /\ CommandsOf(reqs'[r].id) # {} ) =>
              /\ reqs'[r].pc = "done"
              /\ reqs'[r].status = 409
              /\ reqs'[r].error =
                   "Cannot delete model. It has N associated commands."
              /\ reqs'[r].commandCount = Cardinality(CommandsOf(reqs'[r].id))
              /\ device_models' = device_models
              /\ commands' = commands
       /\ reqs[r].pc = "done" => reqs'[r] = reqs[r]]_vars

\* the delete of TK103 was refused with its four commands counted, and the
\* model and the four commands are still there
C4_Witness ==
  \E r \in Reqs :
    /\ IsDeleteModel(reqs[r])
    /\ reqs[r].status = 409
    /\ reqs[r].commandCount = 4
    /\ ModelExists(reqs[r].id)
    /\ Cardinality(CommandsOf(reqs[r].id)) = 4

\* C5 as stated: under every interleaving with POST /api/commands, the
\* DELETE statement of a model delete removes the model row only when zero
\* commands reference it, and no command row disappears with it.
C5_Original ==
  [][\A r \in Reqs :
       DeleteStatementStep(r) =>
         /\ commands' = commands
         /\ device_models' # device_models => CommandsOf(reqs[r].id) = {}]_vars

\* C5 amended: a model delete goes on to its DELETE statement only when
\* its count query found zero commands for the model; a model row is
\* removed only by the DELETE statement of such a request, and only that
\* row; the command rows that disappear with it are commands of that
\* model, inserted after the count query, which the foreign key
\* cascade-deletes.
C5_DeleteAfterZeroCount ==
  [][/\ \A r \in Reqs :
          /\ (reqs[r].kind = "idle" /\ IsDeleteModel(reqs'[r])) =>
               /\ reqs'[r].commandCount =
                    Cardinality(CommandsOf(reqs'[r].id))
               /\ reqs'[r].pc = "delete" <=> CommandsOf(reqs'[r].id) = {}
          /\ DeleteStatementStep(r) =>
               /\ reqs[r].commandCount = 0
               /\ device_models \ device_models' \subseteq
                    { m \in device_models : m.id = reqs[r].id }
               /\ commands' \subseteq commands
               /\ \A c \in commands \ commands' :
                    /\ c.model_id = reqs[r].id
                    /\ device_models' # device_models
     /\ (\E m \in device_models : \A n \in device_models' : n.id # m.id)
          => \E r \in Reqs : DeleteStatementStep(r)]_vars

\* the race: a command was created (201) for a model whose delete had
\* counted zero commands, and the delete then removed the model and, by
\* the cascade, the new command
C5_Witness ==
  \E r, t \in Reqs :
    /\ IsDeleteModel(reqs[r])
    /\ reqs[r].status = 200
    /\ reqs[t].kind = "POST /api/commands"
    /\ reqs[t].status = 201
    /\ reqs[t].id = reqs[r].id
    /\ reqs[t].data[1] \notin commands
    /\ ~ ModelExists(reqs[r].id)

\* C6 as stated: the DELETE statement of a model delete on an existing
\* model without commands removes the model row and reports success, also
\* when sms_history rows reference the model, and keeps those rows.
C6_Original ==
  [][\A r \in Reqs :
       ( /\ DeleteStatementStep(r)
         /\ ModelExists(reqs[r].id)
         /\ CommandsOf(reqs[r].id) = {} ) =>
           /\ \A m \in device_models' : m.id # reqs[r].id
           /\ reqs'[r].status = 200
           /\ sms_history' = sms_history]_vars

\* C7: sms_history is append-only: no step removes or changes a row, and a
\* step that adds one is the INSERT of a send request, adding one row
\* under an id no row had.
C7_AppendOnly ==
  [][/\ sms_history \subseteq sms_history'
     /\ sms_history' # sms_history =>
          \E r \in Reqs :
            /\ reqs[r].kind = "POST /api/sms/send"
            /\ reqs[r].pc = "insert"
            /\ reqs'[r] # reqs[r]
            /\ \E h \in sms_history' :
                 /\ sms_history' = sms_history \cup {h}
                 /\ \A g \in sms_history : g.id # h.id]_vars

\* a history row survives the delete of the model it references
C7_Witness ==
  \E r \in Reqs :
    /\ IsDeleteModel(reqs[r])
    /\ reqs[r].pc = "done"
    /\ reqs[r].commandCount = 0
    /\ \E h \in sms_history : h.model_id = reqs[r].id

----------------------------------------------------------------------------
(* Properties of model and command creation *)

IsPostModel(q) == q.kind = "POST /api/models"

IsPostCommand(q) == q.kind = "POST /api/commands"

IsPutCommand(q) == q.kind = "PUT /api/commands/:id"

ModelRoutes ==
  {"POST /api/models", "PUT /api/models/:id", "DELETE /api/models/:id"}

\* a name the store accepts: not blank, at most 100 characters once trimmed
ValidName(name) == ~ IsBlank(name) /\ Len(Trimmed(name)) <= 100

SeedNames == { seedModels[k].name : k \in 1..Len(seedModels) }

\* C8: no two device_models rows share a name; and two POST /api/models
\* with the same valid name, not in use before, in either order and with
\* no other model request around them, end as one 201 and one 409, with
\* exactly one row of that name: the row the 201 returned.
C8_CreateTwice ==
  /\ \A m, n \in device_models : m.name = n.name => m = n
  /\ \A r, t \in Reqs :
       ( /\ r # t
         /\ IsPostModel(reqs[r]) /\ reqs[r].pc = "done"
         /\ IsPostModel(reqs[t]) /\ reqs[t].pc = "done"
         /\ ValidName(reqs[r].text)
         /\ Trimmed(reqs[r].text) = Trimmed(reqs[t].text)
         /\ Trimmed(reqs[r].text) \notin SeedNames
         /\ \A u \in Reqs \ {r, t} : reqs[u].kind \notin ModelRoutes ) =>
           /\ {reqs[r].status, reqs[t].status} = {201, 409}
           /\ LET named == { m \in device_models :
                               m.name = Trimmed(reqs[r].text) }
              IN  /\ Cardinality(named) = 1
                  /\ \A m \in named :
                       \/ reqs[r].status = 201 /\ reqs[r].data = <<m>>
                       \/ reqs[t].status = 201 /\ reqs[t].data = <<m>>

\* the same name was posted plain and padded: one 201, one 409
C8_Witness ==
  \E r, t \in Reqs :
    /\ IsPostModel(reqs[r]) /\ reqs[r].status = 201
    /\ IsPostModel(reqs[t]) /\ reqs[t].status = 409
    /\ reqs[r].text # reqs[t].text
    /\ Trimmed(reqs[r].text) = Trimmed(reqs[t].text)

\* another command of the same model already has this text
Duplicates(cmds, id, modelId, text) ==
  \E d \in cmds : d.id # id /\ d.model_id = modelId /\ d.command_text = text

\* C9 as stated: a request that would give a second command with the same
\* (model_id, command_text) is answered 409 and leaves the commands table
\* unchanged, for the INSERT of POST /api/commands and for PUT
\* /api/commands/:id with the text of another command of the model.
C9_Original ==
  [][\A r \in Reqs :
       /\ ( /\ IsPostCommand(reqs[r])
            /\ reqs[r].pc = "insert"
            /\ reqs'[r].pc = "done"
            /\ Duplicates(commands, 0, reqs[r].id, Trimmed(reqs[r].text)) )
            => reqs'[r].status = 409 /\ commands' = commands
       /\ ( /\ reqs[r].kind = "idle"
            /\ IsPutCommand(reqs'[r])
            /\ \E c \in commands :
                 /\ c.id = reqs'[r].id
                 /\ Duplicates(commands, c.id, c.model_id,
                               Trimmed(reqs'[r].text)) )
            => reqs'[r].status = 409 /\ commands' = commands]_vars

\* the step in which request r, a POST /api/commands, is answered
PostCommandAnswered(r) ==
  /\ reqs[r].pc # "done"
  /\ reqs'[r].pc = "done"
  /\ IsPostCommand(reqs'[r])

\* the step adds exactly one commands row, for this model and text
OneCommandAdded(q) ==
  \E row \in commands' :
    /\ row \notin commands
    /\ commands' = commands \cup {row}
    /\ \A c \in commands : c.id # row.id
    /\ row.model_id = q.id
    /\ row.command_text = Trimmed(q.text)
    /\ q.data = <<row>>

\* C10 as stated: POST /api/commands with a non-empty command text is
\* answered 404 when modelId names no model, 409 when the (modelId,
\* trimmed text) pair exists, in both cases inserting nothing, and
\* otherwise inserts exactly one row and is answered 201.
C10_Original ==
  [][\A r \in Reqs :
       (PostCommandAnswered(r) /\ reqs'[r].text # <<>>) =>
         LET q == reqs'[r]
         IN  IF ~ ModelExists(q.id)
               THEN q.status = 404 /\ commands' = commands
             ELSE IF Duplicates(commands, 0, q.id, Trimmed(q.text))
               THEN q.status = 409 /\ commands' = commands
             ELSE q.status = 201 /\ OneCommandAdded(q)]_vars

\* C10 amended: POST /api/commands is answered 400 when modelId is missing
\* or the text is blank; otherwise 404 when no model has that id at the
\* model check; otherwise its INSERT is answered 500 when the trimmed text
\* has more than 255 characters, 409 when the (modelId, trimmed text) pair
\* exists, and 500 when the model was deleted after the model check; in
\* all these cases no row is inserted, and otherwise exactly one row is
\* inserted and 201 returned.
C10_PostCommandOutcome ==
  [][\A r \in Reqs :
       /\ PostCommandAnswered(r) =>
            LET q == reqs'[r]
                atCheck == reqs[r].kind = "idle"
            IN  IF q.id = 0 \/ IsBlank(q.text)
                  THEN atCheck /\ q.status = 400 /\ commands' = commands
                ELSE IF atCheck
                  THEN /\ ~ ModelExists(q.id)
                       /\ q.status = 404
                       /\ commands' = commands
                ELSE IF Len(Trimmed(q.text)) > 255
                  THEN q.status = 500 /\ commands' = commands
                ELSE IF Duplicates(commands, 0, q.id, Trimmed(q.text))
                  THEN q.status = 409 /\ commands' = commands
                ELSE IF ~ ModelExists(q.id)
                  THEN q.status = 500 /\ commands' = commands
                ELSE q.status = 201 /\ OneCommandAdded(q)
       /\ ( /\ reqs[r].kind = "idle"
            /\ IsPostCommand(reqs'[r])
            /\ reqs'[r].pc # "done" ) =>
              /\ reqs'[r].id # 0
              /\ ~ IsBlank(reqs'[r].text)
              /\ ModelExists(reqs'[r].id)
              /\ commands' = commands]_vars

\* the same padded text was posted twice for one model: the first request
\* got 201 and its row, with the text trimmed, is in the table; the second
\* got 409
C10_Witness ==
  \E r, t \in Reqs :
    /\ IsPostCommand(reqs[r]) /\ reqs[r].status = 201
    /\ IsPostCommand(reqs[t]) /\ reqs[t].status = 409
    /\ reqs[t].id = reqs[r].id
    /\ reqs[r].data[1] \in commands
    /\ reqs[r].data[1].command_text = NewCommand
    /\ reqs[r].text # NewCommand

----------------------------------------------------------------------------
\* Claims on PUT /api/models/:id

IsPutModel(q) == q.kind = "PUT /api/models/:id"

\* the step in which request r, a PUT /api/models/:id, arrives and is answered
PutModelStep(r) == reqs[r].kind = "idle" /\ IsPutModel(reqs'[r])

ErrorStatuses == {400, 404, 409, 500}

\* C11 as stated: a PUT /api/models/:id with a non-empty name is answered 404
\* when no model has the id, and 409 when the name is that of a different
\* model; in both cases no model row changes.
C11_Original ==
  [][\A r \in Reqs :
       PutModelStep(r) /\ reqs'[r].text # <<>> =>
         /\ ~ ModelExists(reqs'[r].id) =>
              reqs'[r].status = 404 /\ device_models' = device_models
         /\ ( /\ ModelExists(reqs'[r].id)
              /\ \E m \in device_models :
                   /\ m.id # reqs'[r].id
                   /\ m.name = Trimmed(reqs'[r].text) ) =>
              reqs'[r].status = 409 /\ device_models' = device_models]_vars

\* C11: a PUT /api/models/:id whose name is not blank and has at most 100
\* characters once trimmed is answered 404 when no model has the id, and 409
\* when the model exists and the trimmed name is that of a different model;
\* a blank name is answered 400 and a longer one 500; whenever the answer is
\* an error status, no device_models row changes.
C11_PutModelErrors ==
  [][\A r \in Reqs :
       PutModelStep(r) =>
         LET q == reqs'[r]
         IN  /\ IsBlank(q.text) => q.status = 400
             /\ ~ IsBlank(q.text) /\ ~ ValidName(q.text) => q.status = 500
             /\ ValidName(q.text) /\ ~ ModelExists(q.id) => q.status = 404
             /\ ( /\ ValidName(q.text)
                  /\ ModelExists(q.id)
                  /\ \E m \in device_models :
                       m.id # q.id /\ m.name = Trimmed(q.text) )
                  => q.status = 409
             /\ q.status \in ErrorStatuses => device_models' = device_models
             /\ q.status \notin ErrorStatuses =>
                  /\ q.status = 200
                  /\ \E m \in device_models' :
                       m.id = q.id /\ m.name = Trimmed(q.text)]_vars

\* one update answered 404 for a valid name, another answered 409
C11_Witness ==
  \E r, t \in Reqs :
    /\ IsPutModel(reqs[r]) /\ reqs[r].status = 404 /\ ValidName(reqs[r].text)
    /\ IsPutModel(reqs[t]) /\ reqs[t].status = 409
    /\ \E m \in device_models :
         m.id # reqs[t].id /\ m.name = Trimmed(reqs[t].text)

----------------------------------------------------------------------------
\* Claims on the input validation of POST /api/sms/send

\* the phoneNumbers of the request is missing, not an array, empty, or
\* holds an element that is not a string
MalformedPhoneNumbers(q) ==
  \/ q.phoneNumbersType # "array"
  \/ q.phoneNumbers = <<>>
  \/ ~ StringBatch(q)

\* C12 as stated: a send request whose phoneNumbers is missing, not an
\* array, empty, or holds an element that is not a string is answered 400
\* and creates no sms_history row.
C12_Original ==
  \A r \in SendReqs :
    MalformedPhoneNumbers(reqs[r]) =>
      /\ reqs[r].pc = "done"
      /\ reqs[r].status = 400
      /\ NeverDispatched(r)

\* what holds of such requests: none creates a row, and those whose
\* phoneNumbers is missing, not an array or empty are answered 400
C12_RejectedWithoutRow ==
  \A r \in SendReqs :
    MalformedPhoneNumbers(reqs[r]) =>
      /\ reqs[r].pc = "done"
      /\ reqs[r].status \in {400, 500}
      /\ NeverDispatched(r)
      /\ StringBatch(reqs[r]) =>
           /\ reqs[r].status = 400
           /\ reqs[r].error = "Phone numbers array is required"

----------------------------------------------------------------------------
\* Claims on the order of the send loop

\* the numbers of request r whose dispatch has been started and has not
\* completed: the handler is suspended in `await sendSMSCommand(...)`
DispatchInFlight(r) ==
  IF reqs[r].kind = "POST /api/sms/send" /\ reqs[r].pc = "dispatch"
    THEN {reqs[r].i} ELSE {}

\* the numbers of request r that have been through dispatch and insert
Completed(q) == Len(q.results) + Len(q.errors)

\* the phones of the results and errors entries together, as a bag of
\* positions of the batch: entry lists hold the first n numbers of the batch
HoldsFirst(q, n) ==
  \A j \in 1..n :
    LET p == Trimmed(q.phoneNumbers[j])
    IN  Occ(q.results, p) + Occ(q.errors, p) =
          Cardinality({ k \in 1..n : Trimmed(q.phoneNumbers[k]) = p })

\* C13: within one send request the numbers are processed one after the
\* other in batch order: the dispatch of number i is in flight only when
\* numbers 1..i-1 each have their results or errors entry; the dispatch of
\* number i completes before its insert, which adds the entry of number i
\* before the dispatch of number i+1 starts; rows of one request get
\* increasing ids in batch order; at most one dispatch of a request is in
\* flight.
C13_Sequential ==
  [][\A r \in Reqs :
       LET q == reqs[r]
           q2 == reqs'[r]
       IN  /\ Cardinality(DispatchInFlight(r)) <= 1
           /\ \A k \in DispatchInFlight(r) :
                Completed(q) = k - 1 /\ HoldsFirst(q, k - 1)
           \* the dispatch of number i completes: its insert is next
           /\ (q.pc = "dispatch" /\ q2 # q) =>
                /\ q2.pc = "insert" /\ q2.i = q.i
                /\ q2.results = q.results /\ q2.errors = q.errors
                /\ sms_history' = sms_history
           \* the insert of number i completes: then number i+1 or the answer
           /\ (q.pc = "insert" /\ q2 # q) =>
                /\ Completed(q2) = q.i /\ HoldsFirst(q2, q.i)
                /\ \/ q2.pc = "dispatch" /\ q2.i = q.i + 1
                   \/ q2.pc = "done" /\ q.i = Len(q.phoneNumbers)
           /\ \A j, k \in DOMAIN q.results :
                j < k => q.results[j].id < q.results[k].id]_vars

\* two sends are in their loops at once: one has stored its first number
\* and has its second in flight, the other has its first in flight
C13_Witness ==
  \E r, t \in SendReqs :
    /\ r # t
    /\ DispatchInFlight(r) = {2}
    /\ Len(reqs[r].results) = 1
    /\ DispatchInFlight(t) = {1}

----------------------------------------------------------------------------
\* Claims on the dispatch stub

\* a record with a definite outcome: a success with a message id and a
\* detail string, or a failure with an error code and a detail string
DefiniteOutcome(smsResult) ==
  /\ smsResult.success \in BOOLEAN
  /\ smsResult.details # ""
  /\ smsResult.success => smsResult.messageId # "" /\ smsResult.errorCode = ""
  /\ ~ smsResult.success =>
       smsResult.errorCode # "" /\ smsResult.messageId = ""

\* C14: every call of sendSMSCommand made by the send loop returns a record
\* with a definite outcome and raises nothing to the loop: the step that ends
\* a dispatch hands such a record to the insert of the same number, adds no
\* errors entry and does not answer the request; the status stored with the
\* row and reported in results is the outcome of that record.
C14_StubContract ==
  [][\A r \in Reqs :
       LET q == reqs[r]
           q2 == reqs'[r]
       IN  /\ (q.pc = "dispatch" /\ q2 # q) =>
                /\ q2.pc = "insert"
                /\ DefiniteOutcome(q2.smsResult)
                /\ q2.errors = q.errors
                /\ q2.status = 0
           /\ (q.pc = "insert" /\ Len(q2.results) > Len(q.results)) =>
                q2.results[Len(q2.results)].status =
                  (IF q.smsResult.success THEN "sent" ELSE "failed")]_vars

\* one send whose two dispatches ended differently: a success and a failure
C14_Witness ==
  \E r \in SendReqs :
    /\ reqs[r].pc = "done"
    /\ Len(reqs[r].results) = 2
    /\ reqs[r].results[1].status = "sent"
    /\ reqs[r].results[2].status = "failed"
    /\ reqs[r].smsResult.errorCode = "NETWORK_ERROR"

----------------------------------------------------------------------------
\* Claims on GET /api/sms/history

IsHistory(q) == q.kind = "GET /api/sms/history"

\* the step in which request r runs its count query and answers
HistoryCountStep(r) ==
  IsHistory(reqs[r]) /\ reqs[r].pc = "count" /\ reqs'[r].pc = "done"

FilterNames ==
  {"status", "modelId", "phoneNumber", "dateFrom", "dateTo", "search"}

\* the filters a query supplies
Supplied(filters) == { n \in FilterNames : filters[n] # NoFilters[n] }

\* the queries that supply the filters of `filters`, with the same values,
\* and one more
OneMoreFilter(filters) ==
  { g \in FilterInputs :
      /\ Supplied(filters) \subseteq Supplied(g)
      /\ Cardinality(Supplied(g)) = Cardinality(Supplied(filters)) + 1
      /\ \A n \in Supplied(filters) : g[n] = filters[n] }

\* pagination.total of a history query with these filters on the store as
\* it is now
TotalNow(filters) ==
  Cardinality(HistoryWhere(sms_history, device_models, filters))

\* C15: on the store as it is when a history query counts, pagination.total
\* is the number of sms_history rows when no filter is supplied, and for
\* every combination of filters the total of the query with one more
\* filter is not greater; a total is never more than the number of rows.
C15_TotalMonotone ==
  [][\A r \in Reqs :
       HistoryCountStep(r) =>
         LET q == reqs'[r]
             total == q.pagination.total
         IN  /\ Supplied(q.filters) = {} => total = Cardinality(sms_history)
             /\ total <= Cardinality(sms_history)
             /\ total = TotalNow(q.filters)
             /\ \A g \in OneMoreFilter(q.filters) : TotalNow(g) <= total]_vars

\* a query with two filters counted fewer rows than the store has, and not
\* zero, on a store of three rows or more
C15_Witness ==
  \E r \in Reqs :
    /\ IsHistory(reqs[r]) /\ reqs[r].pc = "done" /\ reqs[r].status = 200
    /\ Cardinality(Supplied(reqs[r].filters)) = 2
    /\ reqs[r].pagination.total \in 1..2
    /\ Cardinality(sms_history) >= 3

\* a filter value is part of a text, whatever the case of the letters
ContainsFolded(text, part) ==
  /\ text # NullText
  /\ \E i \in 1..(Len(text) - Len(part) + 1) :
       \A k \in 1..Len(part) : Lower(text)[i + k - 1] = Lower(part)[k]

\* a row satisfies the filters supplied, as the API documents them:
\* status and model equal, the phone number contains phoneNumber, sent_at
\* is in the date range, and command text, notes or model name contain
\* search
Satisfies(row, filters) ==
  /\ filters.status # "" => row.status = filters.status
  /\ filters.modelId # 0 => row.model_id = filters.modelId
  /\ filters.phoneNumber # <<>> =>
       ContainsFolded(row.phone_number, filters.phoneNumber)
  /\ filters.dateFrom # 0 => row.sent_at >= filters.dateFrom
  /\ filters.dateTo # 0 => row.sent_at <= filters.dateTo
  /\ filters.search # <<>> =>
       \/ ContainsFolded(row.command_text, filters.search)
       \/ ContainsFolded(row.notes, filters.search)
       \/ ContainsFolded(row.model_name, filters.search)

\* the rows of a response are in descending order of sent_at
Descending(data) ==
  \A j, k \in DOMAIN data : j < k => data[j].sent_at >= data[k].sent_at

\* the flags of a response, from its page, limit and total
FlagsRight(q) ==
  /\ q.pagination.hasPrev <=> q.page > 1
  /\ q.pagination.hasNext <=> q.page * q.limit < q.pagination.total

\* C16 as stated: a history query with page >= 1 and limit >= 1 returns at
\* most `limit` rows, each satisfying all the filters supplied, in
\* descending order of sent_at, with hasPrev true exactly when page > 1 and
\* hasNext true exactly when page * limit < total.
C16_Original ==
  \A r \in Reqs :
    LET q == reqs[r]
    IN  (IsHistory(q) /\ q.pc = "done" /\ q.page >= 1 /\ q.limit >= 1) =>
          /\ q.status = 200
          /\ Len(q.data) <= q.limit
          /\ \A k \in DOMAIN q.data : Satisfies(q.data[k], q.filters)
          /\ Descending(q.data)
          /\ FlagsRight(q)

\* the phoneNumber and search values have no LIKE wildcard
NoWildcard(filters) ==
  /\ \A k \in DOMAIN filters.phoneNumber : filters.phoneNumber[k] \notin {"%", "_"}
  /\ \A k \in DOMAIN filters.search : filters.search[k] \notin {"%", "_"}

\* what holds of GET /api/sms/history: the same with filters free of "%" and
\* "_"; with them, the rows are those matching the value as a LIKE pattern;
\* the page is the rows of rank offset+1 to offset+limit of the matching
\* rows at the time of the page query
C16_PageContract ==
  [][\A r \in Reqs :
       (reqs[r].kind = "idle" /\ IsHistory(reqs'[r])
          /\ reqs'[r].page >= 1 /\ reqs'[r].limit >= 1) =>
         LET q == reqs'[r]
             offset == (q.page - 1) * q.limit
             matching == HistoryWhere(sms_history, device_models, q.filters)
             n == Cardinality(matching)
         IN  /\ q.pc = "count"
             /\ Len(q.data) <= q.limit
             /\ Len(q.data) = IF n <= offset THEN 0
                              ELSE IF n - offset < q.limit THEN n - offset
                              ELSE q.limit
             /\ \A k \in DOMAIN q.data :
                  /\ q.data[k] \in matching
                  /\ NoWildcard(q.filters) => Satisfies(q.data[k], q.filters)
                  /\ Cardinality({ m \in matching :
                                    m.sent_at > q.data[k].sent_at })
                       = offset + k - 1
             /\ Descending(q.data)]_vars

----------------------------------------------------------------------------
\* Claims on the round trip of a command

IsGetModelCommands(q) == q.kind = "GET /api/models/:modelId/commands"

\* the step in which request t, a command list of a model, is answered
GetModelCommandsStep(t) ==
  reqs[t].kind = "idle" /\ IsGetModelCommands(reqs'[t])

\* request r is a POST /api/commands answered 201 whose row is in the table
Created(r) ==
  /\ IsPostCommand(reqs[r])
  /\ reqs[r].status = 201
  /\ reqs[r].data[1] \in commands

\* C17 as stated: after a POST /api/commands is accepted, the command list
\* of its model holds that command exactly once, with the text and the
\* description as they were submitted.
C17_Original ==
  [][\A r, t \in Reqs :
       ( /\ Created(r)
         /\ GetModelCommandsStep(t)
         /\ reqs'[t].id = reqs[r].id ) =>
           Cardinality({ c \in reqs'[t].rows :
                          /\ c.command_text = reqs[r].text
                          /\ c.description = reqs[r].description }) = 1]_vars

\* C17: the row an accepted POST /api/commands stores and returns has the
\* submitted text trimmed and the submitted description, NULL for an empty
\* one; while that row is in the table, the command list of its model holds
\* exactly one command with that text, which is that row, with the name of
\* the model.
C17_RoundTrip ==
  [][\A r \in Reqs :
       /\ (PostCommandAnswered(r) /\ reqs'[r].status = 201) =>
            LET row == reqs'[r].data[1]
            IN  /\ row \in commands' /\ row \notin commands
                /\ row.model_id = reqs[r].id
                /\ row.command_text = Trimmed(reqs[r].text)
                /\ row.description =
                     (IF reqs[r].description = "" THEN NULL
                      ELSE reqs[r].description)
       /\ \A t \in Reqs :
            ( /\ Created(r)
              /\ GetModelCommandsStep(t)
              /\ reqs'[t].id = reqs[r].id ) =>
                LET row == reqs[r].data[1]
                    listed == { c \in reqs'[t].rows :
                                  c.command_text = Trimmed(reqs[r].text) }
                IN  /\ Cardinality(listed) = 1
                    /\ \A c \in listed :
                         /\ c.id = row.id
                         /\ c.description = row.description
                         /\ c.model_id = row.model_id
                         /\ \E m \in device_models :
                              m.id = row.model_id /\ m.name = c.model_name]_vars

\* a command submitted with blanks around its text and an empty description
\* was created, and the list of its model fetched afterwards holds it
C17_Witness ==
  \E r, t \in Reqs :
    /\ IsPostCommand(reqs[r]) /\ reqs[r].status = 201
    /\ reqs[r].text = <<" ">> \o NewCommand \o <<" ">>
    /\ reqs[r].description = ""
    /\ IsGetModelCommands(reqs[t])
    /\ reqs[t].id = reqs[r].id
    /\ \E c \in reqs[t].rows :
         c.command_text = NewCommand /\ c.id = reqs[r].data[1].id

----------------------------------------------------------------------------
\* Claims on the endpoints other than POST /api/sms/send

IsSend(q) == q.kind = "POST /api/sms/send"

\* C18: a request to an endpoint other than POST /api/sms/send writes with
\* its last statement only, and only when it succeeds: every step of such a
\* request that does not answer, and every step that answers 400, 404, 409
\* or 500, leaves device_models, commands, sms_history and sms_messages as
\* they were, so a request answered with an error status has changed no
\* table.
C18_AllOrNothing ==
  [][\A r \in Reqs :
       LET q == reqs[r]
           q2 == reqs'[r]
       IN  (q2 # q /\ ~ IsSend(q2)) =>
             /\ q2.pc # "done" => tables' = tables
             /\ q2.status \in ErrorStatuses => tables' = tables
             /\ tables' # tables => q2.pc = "done" /\ q2.status \in {200, 201}
             /\ q2.pc = "done" => q2.status \in ErrorStatuses \cup {200, 201}]_vars

\* a command insert refused as a duplicate after its model check, and a
\* model delete refused for its commands: the tables are the seeded ones
C18_Witness ==
  \E r, t \in Reqs :
    /\ IsPostCommand(reqs[r]) /\ reqs[r].status = 409
    /\ IsDeleteModel(reqs[t]) /\ reqs[t].status = 409
    /\ device_models = SeedModelRows
    /\ commands = SeedCommandRows

----------------------------------------------------------------------------
\* Claims on initializeDatabase

\* the step that runs initializeDatabase
InitializeStep == server.phase = "init" /\ server'.phase = "listening"

\* no two models share an id or a name, no two commands an id or a
\* (model, text) pair
NoDuplicate(models, cmds) ==
  /\ \A m, n \in models : (m.id = n.id \/ m.name = n.name) => m = n
  /\ \A c, d \in cmds :
       (c.id = d.id \/ (c.model_id = d.model_id
                          /\ c.command_text = d.command_text)) => c = d

\* C19: a run of initializeDatabase keeps every row of device_models,
\* commands and sms_history as it is and creates no duplicate; the rows it
\* adds are seed models whose name was absent and sample commands whose
\* (model, command) pair was absent, after which every seed name and every
\* sample pair is present; a run on the store a run produced changes no
\* table; on an empty database it produces the seeded store.
C19_InitIdempotent ==
  [][InitializeStep =>
       /\ device_models \subseteq device_models'
       /\ commands \subseteq commands'
       /\ sms_history' = sms_history
       /\ sms_messages' = sms_messages
       /\ NoDuplicate(device_models, commands) =>
            NoDuplicate(device_models', commands')
       /\ \A m \in device_models' \ device_models :
            /\ \E k \in DOMAIN seedModels : seedModels[k].name = m.name
            /\ ~ \E n \in device_models : n.name = m.name
       /\ \A c \in commands' \ commands :
            /\ \E k \in DOMAIN sampleCommands, m \in device_models' :
                 /\ m.id = c.model_id
                 /\ m.name = sampleCommands[k].model
                 /\ c.command_text = sampleCommands[k].command
            /\ ~ \E d \in commands : /\ d.model_id = c.model_id
                                     /\ d.command_text = c.command_text
       /\ \A k \in DOMAIN seedModels :
            \E m \in device_models' : m.name = seedModels[k].name
       /\ \A k \in DOMAIN sampleCommands :
            \E m \in device_models', c \in commands' :
              /\ m.name = sampleCommands[k].model
              /\ c.model_id = m.id
              /\ c.command_text = sampleCommands[k].command
       /\ server.runs >= 1 => tables' = tables
       /\ (device_models = {} /\ commands = {}) =>
            /\ device_models' = SeedModelRows
            /\ commands' = SeedCommandRows]_vars

\* after the second run: TK102 had been renamed, so the first run added a
\* new TK102 with its four commands beside the renamed model, and the
\* second run added nothing
C19_Witness ==
  /\ server.runs = 2
  /\ server.phase = "listening"
  /\ \E m, n \in device_models :
       /\ m.id = 2 /\ m.name = NewName
       /\ n.id > Len(seedModels) /\ n.name = seedModels[2].name
       /\ Cardinality({ c \in commands : c.model_id = n.id }) = 4
       /\ Cardinality({ c \in commands : c.model_id = m.id }) = 4

----------------------------------------------------------------------------
(* Shutdown *)

\* number of times gracefulShutdown is triggered in one behaviour
MaxTriggers == 2

\* a client of the pool is checked out: a statement of the handler is with
\* the store, not answered yet
InFlight(q) == q.pc \in {"insert", "delete", "count"}

\* the response of the request has not been written: its connection to the
\* listener stays open
Responding(q) == q.pc \notin {"idle", "done"}

\* the second half of gracefulShutdown: server.close(callback) and the 10 s
\* setTimeout, or process.exit(0) where startServer has not assigned
\* `server` yet
CloseServer(s) ==
  IF s.phase = "listening"
    THEN [s EXCEPT !.listener = IF @ = "open" THEN "closing" ELSE @,
                   !.timers = @ + 1]
  ELSE [s EXCEPT !.exit = "exit0"]

\* gracefulShutdown(signal), called by the handlers of SIGTERM, SIGINT,
\* uncaughtException and unhandledRejection.  The first call starts ending
\* the pool and awaits it.  pool.end() on a pool that is already ending
\* rejects with 'Called end on pool more than once'; the catch block logs
\* that and the call goes on to close the server
GracefulShutdown ==
  /\ Running
  /\ Len(server.calls) < MaxTriggers
  /\ server' =
       IF server.pool = "open"
         THEN [server EXCEPT !.pool = "ending", !.calls = Append(@, "await")]
       ELSE CloseServer([server EXCEPT !.calls = Append(@, "closed")])
  /\ UNCHANGED <<tables, seqs, reqs>>

\* pool.end() resolves once every checked-out client has been released; the
\* call that awaits it goes on to close the server
PoolEndResolves ==
  /\ Running
  /\ server.pool = "ending"
  /\ \A r \in Reqs : ~ InFlight(reqs[r])
  /\ server' =
       CloseServer([server EXCEPT
         !.pool = "ended",
         !.calls = [i \in DOMAIN server.calls |-> "closed"]])
  /\ UNCHANGED <<tables, seqs, reqs>>

\* the 'close' event of the listener, emitted when no connection is left:
\* the callback given to server.close calls process.exit(0)
ListenerCloses ==
  /\ Running
  /\ server.listener = "closing"
  /\ \A r \in Reqs : ~ Responding(reqs[r])
  /\ server' = [server EXCEPT !.listener = "closed", !.exit = "exit0"]
  /\ UNCHANGED <<tables, seqs, reqs>>

\* the timer armed by gracefulShutdown fires: process.exit(1)
ForceExit ==
  /\ Running
  /\ server.timers > 0
  /\ server' = [server EXCEPT !.exit = "exit1"]
  /\ UNCHANGED <<tables, seqs, reqs>>

\* the connections to the store go dead without being closed.  The pool is
\* built without statement_timeout or query_timeout, so a statement in
\* flight is then never answered and its client never released
LinkLost ==
  /\ Running
  /\ server.link = "up"
  /\ server' = [server EXCEPT !.link = "lost"]
  /\ UNCHANGED <<tables, seqs, reqs>>

\* requests in flight while the process is told to stop: sends and command
\* creations.  Requests arriving after the first trigger are not followed:
\* the pool rejects their first query, so they never hold a client
ShutdownNext ==
  \/ \E r \in Reqs :
       \/ PostSmsSend(r, [type |-> "array", items |-> <<PhoneA>>], 5,
                      NewCommand, <<>>)
       \/ SendDispatch(r)
       \/ SendInsert(r)
       \/ PostCommandCheck(r, 5, NewCommand, "")
       \/ PostCommandInsert(r)
  \/ GracefulShutdown
  \/ PoolEndResolves
  \/ ListenerCloses
  \/ ForceExit
  \/ LinkLost

\* what the event loop guarantees: a resolved promise runs its continuation
\* and an armed timer fires.  While the link is up the store answers the
\* statements it was given.  Nothing is assumed of the signals, of the link,
\* or of the clients closing their connections to the listener
ShutdownFairness ==
  /\ \A r \in Reqs : /\ WF_vars(SendDispatch(r))
                     /\ WF_vars(SendInsert(r))
                     /\ WF_vars(PostCommandInsert(r))
  /\ WF_vars(PoolEndResolves)
  /\ WF_vars(ForceExit)

ShutdownSpec == Init /\ [][ShutdownNext]_vars /\ ShutdownFairness

----------------------------------------------------------------------------
(* C20: gracefulShutdown *)

\* gracefulShutdown has been called at least once
Triggered == Len(server.calls) > 0

\* process.exit has been called
Exited == server.exit # "running"

\* the pool waits for a client whose statement the store will not answer,
\* and no call has reached server.close and its timer
Stuck ==
  /\ server.link = "lost"
  /\ server.pool = "ending"
  /\ server.timers = 0
  /\ \E r \in Reqs : InFlight(reqs[r])

\* C20, as stated: once gracefulShutdown has been triggered the process
\* eventually exits, and the listener is closed only after the pool has
\* been drained, also with repeated triggers and with requests in flight.
\* Does not hold: the forced-exit timer is armed only after pool.end() has
\* resolved, and a repeated trigger closes the listener without the drain
C20_Original ==
  /\ Triggered ~> Exited
  /\ [](server.listener # "open" => server.pool = "ended")

\* C20, the part on exiting taken alone
C20_EventuallyExits == Triggered ~> Exited

\* C20, the part on the order taken alone
C20_DrainedBeforeClose == [](server.listener # "open" => server.pool = "ended")

\* C20, what does hold of exiting: a triggered process exits unless the pool
\* is left waiting for a statement that is never answered
C20_ExitsUnlessStuck == Triggered ~> (Exited \/ Stuck)

\* C20, what does hold of the order: the listener is closed either once the
\* pool has been drained or by a repeated call of gracefulShutdown; the
\* timer is armed in the same step, exit code 0 follows the close of the
\* listener and exit code 1 the timer
C20_CloseOrder ==
  [][/\ (server.listener = "open" /\ server'.listener # "open") =>
          /\ server'.timers > server.timers
          /\ \/ server'.pool = "ended"
             \/ /\ Triggered
                /\ Len(server'.calls) > Len(server.calls)
     /\ (Running /\ server'.exit = "exit0") => server'.listener = "closed"
     /\ (Running /\ server'.exit = "exit1") => server.timers > 0]_vars

\* a process stopped by the timer while a request was still being answered
C20_Witness ==
  /\ server.exit = "exit1"
  /\ \E r \in Reqs : Responding(reqs[r])

----------------------------------------------------------------------------
(* Rate limiter *)

RATE_LIMIT_WINDOW == 60000

RATE_LIMIT_MAX == 100

\* milliseconds the clock is followed into each window
MaxMs == 2

\* windows the clock is followed through
MaxWindows == 2

\* requests of the second address in one window; the first address goes
\* past RATE_LIMIT_MAX
MaxQuiet == 2

\* requests of one address followed past RATE_LIMIT_MAX in one window
MaxOver == 2

\* faulty variant, for sensitivity: the window is over at resetTime already
ExpiredAtReset(now, clientData) == now >= clientData.resetTime

\* now > clientData.resetTime
Expired(now, clientData) == now > clientData.resetTime

\* faulty variant, for sensitivity: one request more is let through
OverLimitLate(count) == count > RATE_LIMIT_MAX + 1

\* clientData.count > RATE_LIMIT_MAX
OverLimit(count) == count > RATE_LIMIT_MAX

\* the entry of the address after the middleware has run
Counted(now, clientData) ==
  IF clientData = NoEntry \/ Expired(now, clientData)
    THEN [count |-> 1, resetTime |-> now + RATE_LIMIT_WINDOW]
  ELSE [clientData EXCEPT !.count = @ + 1]

\* what the middleware does with the request: 429, or 0 for next()
Verdict(now, clientData) ==
  IF /\ clientData # NoEntry
     /\ ~ Expired(now, clientData)
     /\ OverLimit(clientData.count + 1)
    THEN 429
  ELSE 0

\* the rate limiting middleware on a request of address ip; it is
\* synchronous code, one step of the process
RateLimit(ip) ==
  /\ Running
  /\ server.phase = "listening"
  /\ LET l == server.limiter
         clientData == l.requestCounts[ip]
         entry == Counted(server.now, clientData)
         status == Verdict(server.now, clientData)
     IN  /\ entry.count <=
              IF ip = "10.0.0.1" THEN RATE_LIMIT_MAX + MaxOver ELSE MaxQuiet
         /\ server' = [server EXCEPT !.limiter =
              [requestCounts |-> [l.requestCounts EXCEPT ![ip] = entry],
               passed |-> [l.passed EXCEPT ![ip] =
                 IF status = 429 THEN @
                 ELSE IF entry.count = 1 THEN 1 ELSE @ + 1],
               verdict |-> [ip |-> ip, status |-> status]]]
  /\ UNCHANGED <<tables, seqs, reqs>>

\* Date.now() advances, by a millisecond or by a whole window
Tick(d) ==
  /\ Running
  /\ IF d = 1 THEN server.now % RATE_LIMIT_WINDOW < MaxMs
     ELSE server.now + d <= MaxWindows * RATE_LIMIT_WINDOW + MaxMs
  /\ server' = [server EXCEPT !.now = @ + d]
  /\ UNCHANGED <<tables, seqs, reqs>>

LimiterNext ==
  \/ \E ip \in Addrs : RateLimit(ip)
  \/ \E d \in {1, RATE_LIMIT_WINDOW} : Tick(d)

LimiterSpec == Init /\ [][LimiterNext]_vars

----------------------------------------------------------------------------
(* C21: rate limiter *)

\* the step is the middleware running on a request of address ip: every
\* request changes the entry of its address
LimiterStep(ip) ==
  server'.limiter.requestCounts[ip] # server.limiter.requestCounts[ip]

\* the address has an entry and the clock has not passed its resetTime
InWindow(ip) ==
  /\ server.limiter.requestCounts[ip] # NoEntry
  /\ server.now <= server.limiter.requestCounts[ip].resetTime

\* C21: for every address, at most RATE_LIMIT_MAX requests are passed on
\* within one window and every further request of the window is answered
\* 429; the first request strictly after resetTime is passed on and sets
\* the entry to count 1 with a new window; an entry changes only on a
\* request of its address.
C21_RateLimiter ==
  [][\A ip \in Addrs :
       LET l == server.limiter
           l2 == server'.limiter
           entry == l.requestCounts[ip]
           entry2 == l2.requestCounts[ip]
       IN  /\ l2.passed[ip] <= RATE_LIMIT_MAX
           /\ LimiterStep(ip) =>
                /\ l2.verdict.ip = ip
                /\ \A other \in Addrs \ {ip} :
                     l2.requestCounts[other] = l.requestCounts[other]
                /\ server'.now = server.now
                /\ (InWindow(ip) /\ l.passed[ip] >= RATE_LIMIT_MAX) =>
                     /\ l2.verdict.status = 429
                     /\ entry2.resetTime = entry.resetTime
                /\ (InWindow(ip) /\ l.passed[ip] < RATE_LIMIT_MAX) =>
                     /\ l2.verdict.status = 0
                     /\ l2.passed[ip] = l.passed[ip] + 1
                     /\ entry2.resetTime = entry.resetTime
                /\ ~ InWindow(ip) =>
                     /\ l2.verdict.status = 0
                     /\ l2.passed[ip] = 1
                     /\ entry2 = [count |-> 1,
                                  resetTime |-> server.now + RATE_LIMIT_WINDOW]
           /\ ~ LimiterStep(ip) => l2.passed[ip] = l.passed[ip]]_vars

\* a request arriving exactly at resetTime, after RATE_LIMIT_MAX requests of
\* its address were passed on in the window, was answered 429 while the
\* other address holds an entry of its own
C21_Witness ==
  \E ip \in Addrs :
    /\ server.limiter.verdict = [ip |-> ip, status |-> 429]
    /\ server.limiter.passed[ip] = RATE_LIMIT_MAX
    /\ server.limiter.requestCounts[ip].count = RATE_LIMIT_MAX + 1
    /\ server.limiter.requestCounts[ip].resetTime = server.now
    /\ \E other \in Addrs \ {ip} :
         server.limiter.requestCounts[other].count = MaxQuiet

----------------------------------------------------------------------------
(* Startup: connectWithRetry, then initializeDatabase, then app.listen *)

\* faulty variant, for sensitivity: the loop ends without process.exit
GiveUpNever(retries) == FALSE

\* if (retries === 0), after retries -= 1
GiveUp(retries) == retries = 0

\* startServer has just called connectWithRetry: let retries = 5
Connecting ==
  [Listening EXCEPT
     !.phase = "connect",
     !.connect = [retries |-> Retries, attempts |-> 0, waits |-> 0,
                  connected |-> FALSE]]

\* one pass of `while (retries)`: await pool.connect() settles, within
\* connectionTimeoutMillis.  With a client the loop breaks and startServer
\* goes on to initializeDatabase; without one retries is decremented and
\* the process exits with code 1 at 0, or else starts the 5 s timer
ConnectAttempt(ok) ==
  /\ Running
  /\ server.phase = "connect"
  /\ LET c == [server.connect EXCEPT !.attempts = @ + 1]
         left == c.retries - 1
     IN  server' =
           IF ok
             THEN [server EXCEPT !.phase = "init",
                                 !.connect = [c EXCEPT !.connected = TRUE]]
           ELSE IF GiveUp(left)
             THEN [server EXCEPT !.exit = "exit1",
                                 !.connect = [c EXCEPT !.retries = left]]
           ELSE [server EXCEPT !.phase = "wait",
                               !.connect = [c EXCEPT !.retries = left]]
  /\ UNCHANGED <<tables, seqs, reqs>>

\* the 5 s timer resolves the awaited promise; `while (retries)` is tested
\* again and ends the function when retries is 0
RetryTimer ==
  /\ Running
  /\ server.phase = "wait"
  /\ server' =
       [server EXCEPT
          !.phase = IF server.connect.retries # 0 THEN "connect" ELSE "init",
          !.connect = [@ EXCEPT !.waits = @ + 1]]
  /\ UNCHANGED <<tables, seqs, reqs>>

\* a statement of initializeDatabase is rejected, before the seeds or after
\* the seed models: its catch block rethrows and the catch block of
\* startServer calls process.exit(1)
InitializeDatabaseFails(seeded) ==
  /\ Running
  /\ server.phase = "init"
  /\ LET m == InsertSeedModels(device_models, seqs.device_models, 1)
     IN  /\ device_models' = IF seeded THEN m.rows ELSE device_models
         /\ seqs' = IF seeded THEN [seqs EXCEPT !.device_models = m.seq]
                    ELSE seqs
  /\ server' = [server EXCEPT !.exit = "exit1"]
  /\ UNCHANGED <<commands, sms_history, sms_messages, reqs>>

\* startServer on an empty database or on a store left by earlier runs
ConnectInit ==
  /\ sms_messages = {}
  /\ reqs = [r \in Reqs |-> NoReq]
  /\ server = Connecting
  /\ \/ /\ device_models = {} /\ commands = {} /\ sms_history = {}
        /\ seqs = [device_models |-> 1, commands |-> 1, sms_history |-> 1,
                   sms_messages |-> 1]
     \/ \E s \in LeftStores :
          /\ device_models = s.device_models
          /\ commands = s.commands
          /\ sms_history = s.sms_history
          /\ seqs = [device_models |-> Len(seedModels) + 1,
                     commands |-> Len(sampleCommands) + 1,
                     sms_history |-> 2, sms_messages |-> 1]

ConnectNext ==
  \/ \E ok \in BOOLEAN : ConnectAttempt(ok)
  \/ RetryTimer
  \/ InitializeDatabase
  \/ \E seeded \in BOOLEAN : InitializeDatabaseFails(seeded)

\* pool.connect() settles (connectionTimeoutMillis is set) and the timer
\* fires.  Nothing is assumed of the statements of initializeDatabase
ConnectFairness ==
  /\ WF_vars(\E ok \in BOOLEAN : ConnectAttempt(ok))
  /\ WF_vars(RetryTimer)

ConnectSpec == ConnectInit /\ [][ConnectNext]_vars /\ ConnectFairness

----------------------------------------------------------------------------
(* C22: connectWithRetry *)

\* connectWithRetry is running
InConnect == server.phase \in {"connect", "wait"}

\* every seed model is in device_models
SeedsPresent(models) ==
  \A k \in DOMAIN seedModels : \E m \in models : m.name = seedModels[k].name

\* C22, the steps: at most 5 attempts are made, none after a successful
\* one; when an attempt is made every earlier attempt has failed and was
\* followed by a wait; the process exits from connectWithRetry at the 5th
\* failed attempt, with code 1 and without a 5th wait; initializeDatabase
\* starts only after a successful attempt and the server listens only after
\* initializeDatabase has run to its end.
C22_Steps ==
  [][LET c == server.connect
         c2 == server'.connect
     IN  /\ c2.attempts <= Retries
         /\ c2.attempts # c.attempts =>
              /\ ~ c.connected
              /\ c.waits = c.attempts
              /\ c2.waits = c.waits
         /\ c2.waits # c.waits =>
              /\ c2.waits = c.attempts
              /\ ~ c.connected
         /\ (InConnect /\ Running /\ server'.exit # "running") =>
              /\ server'.exit = "exit1"
              /\ c2.attempts = Retries
              /\ c2.waits = Retries - 1
              /\ ~ c2.connected
         /\ (InConnect /\ server'.phase = "init") =>
              /\ c2.connected
              /\ c2.attempts = c2.waits + 1
         /\ (server.phase # "listening" /\ server'.phase = "listening") =>
              /\ server.phase = "init"
              /\ c.connected
              /\ SeedsPresent(device_models')
              /\ server'.exit = "running"]_vars

\* C22: connectWithRetry terminates, with a connection or with the exit of
\* the process, and the steps are those of C22_Steps.
C22_ConnectWithRetry ==
  /\ <>(~ InConnect \/ Exited)
  /\ C22_Steps

\* the process listens after four failed attempts, four waits and a fifth
\* attempt that gave a client
C22_Witness ==
  /\ server.phase = "listening"
  /\ server.connect.attempts = Retries
  /\ server.connect.waits = Retries - 1
  /\ server.connect.connected

\* the process has exited at the fifth failed attempt
C22_WitnessExit ==
  /\ server.exit = "exit1"
  /\ InConnect
  /\ server.connect.attempts = Retries

----------------------------------------------------------------------------
(* C23: referential integrity *)

\* the model_id of the row is NULL or the id of a device_models row
References(row) == row.model_id = 0 \/ ModelExists(row.model_id)

\* C23: in every reachable state each commands row and each sms_history row
\* with a model_id references an existing device_models row, also when a
\* model deletion runs between the model check and the insert of a command
\* creation or of a send.
C23_ReferentialIntegrity ==
  /\ \A c \in commands : References(c)
  /\ \A h \in sms_history : References(h)

\* a command creation passed its model check, the model was deleted, and
\* the INSERT was refused
C23_Witness ==
  \E r, t \in Reqs :
    /\ reqs[r].kind = "POST /api/commands"
    /\ reqs[r].status = 500
    /\ ~ ModelExists(reqs[r].id)
    /\ reqs[t].kind = "DELETE /api/models/:id"
    /\ reqs[t].status = 200
    /\ reqs[t].id = reqs[r].id

\* a send passed its model check, the model was deleted, and the INSERT of
\* its number was refused
C23_WitnessSend ==
  \E r, t \in Reqs :
    /\ reqs[r].kind = "POST /api/sms/send"
    /\ reqs[r].status = 200
    /\ reqs[r].errors # <<>>
    /\ ~ ModelExists(reqs[r].id)
    /\ reqs[t].kind = "DELETE /api/models/:id"
    /\ reqs[t].status = 200

----------------------------------------------------------------------------
(* The history query against concurrent writes *)

\* the searches of the race: none, and one matching the name of TK303
SearchInputs == {<<>>, <<"t", "k", "3">>}

\* one history query, and between its two statements a send, a model update
\* or a command update
HistoryRaceNext ==
  \/ \E limit \in LimitInputs, search \in SearchInputs :
       GetHistoryPage(1, 1, limit, [NoFilters EXCEPT !.search = search])
  \/ GetHistoryCount(1)
  \/ PostSmsSend(2, [type |-> "array", items |-> <<PhoneA>>], 5, NewCommand,
                 <<>>)
  \/ SendDispatch(2)
  \/ SendInsert(2)
  \/ \E id \in {1, 5} : PutModel(2, id, NewName, "")
  \/ PutCommand(2, 1, NewCommand, "")

HistoryRaceSpec == HistoryInit /\ [][HistoryRaceNext]_vars

----------------------------------------------------------------------------
(* C24: rows returned against pagination.total *)

\* the model of the returned row has another name now than the one the
\* page query joined
Renamed(row) ==
  \E m \in device_models : m.id = row.model_id /\ m.name # row.model_name

\* the returned rows whose model was renamed since the page query
RenamedRows(data) == { k \in DOMAIN data : Renamed(data[k]) }

\* C24, as stated: in every history response the number of rows returned
\* does not exceed pagination.total, whatever runs between the page query
\* and the count query.  Does not hold: a model update between the two
\* statements takes rows matched on the model name out of the count
C24_Original ==
  \A r \in Reqs :
    (IsHistory(reqs[r]) /\ reqs[r].pc = "done" /\ reqs[r].status = 200) =>
      Len(reqs[r].data) <= reqs[r].pagination.total

\* C24 amended: the total is the number of rows matching the filters when
\* the count query runs.  Rows are never deleted or changed, so the rows
\* returned do not exceed it when there is no search filter, whatever sends
\* and updates run in between; with a search filter they exceed it by at
\* most the number of returned rows whose model was renamed in between.
C24_RowsWithinTotal ==
  [][\A r \in Reqs :
       HistoryCountStep(r) =>
         LET q == reqs[r]
             total == reqs'[r].pagination.total
         IN  /\ total = Cardinality(HistoryWhere(sms_history, device_models,
                                                 q.filters))
             /\ reqs'[r].data = q.data
             /\ q.filters.search = <<>> => Len(q.data) <= total
             /\ Len(q.data) <= total + Cardinality(RenamedRows(q.data))]_vars

\* a send stored a row between the page query and the count query: the
\* total is larger than the number of rows the store held for the page
C24_Witness ==
  \E r \in Reqs :
    /\ IsHistory(reqs[r]) /\ reqs[r].pc = "done" /\ reqs[r].status = 200
    /\ reqs[r].limit = 50
    /\ reqs[r].filters.search = <<>>
    /\ Len(reqs[r].data) > 0
    /\ reqs[r].pagination.total = Len(reqs[r].data) + 1

\* a model was renamed between the page query and the count query: rows
\* matched on its name were returned and are not in the total
C24_WitnessRenamed ==
  \E r \in Reqs :
    /\ IsHistory(reqs[r]) /\ reqs[r].pc = "done" /\ reqs[r].status = 200
    /\ Len(reqs[r].data) > reqs[r].pagination.total
    /\ RenamedRows(reqs[r].data) # {}

----------------------------------------------------------------------------
(* C25: the summary of a send *)

\* the sms_history rows whose id is the one the entry of results carries
RowsNamed(entry) == { h \in sms_history : h.id = entry.id }

\* C25: in every 200 response of a send, summary.total is the batch length,
\* summary.sent + summary.failed = summary.total, every entry of results
\* has status "sent" or "failed", the status stored in the one sms_history
\* row of its id, and success is true exactly when summary.sent > 0.
C25_SendSummary ==
  \A r \in SendReqs :
    LET q == reqs[r]
    IN  (q.pc = "done" /\ q.status = 200) =>
          /\ q.summary.total = Len(q.phoneNumbers)
          /\ q.summary.sent + q.summary.failed = q.summary.total
          /\ q.summary.sent =
               Cardinality({ k \in DOMAIN q.results :
                               q.results[k].status = "sent" })
          /\ \A k \in DOMAIN q.results :
               /\ q.results[k].status \in {"sent", "failed"}
               /\ Cardinality(RowsNamed(q.results[k])) = 1
               /\ \A h \in RowsNamed(q.results[k]) :
                    h.status = q.results[k].status
          /\ q.success <=> q.summary.sent > 0

\* a batch of two answered 200 with one number sent and one failed
C25_Witness ==
  \E r \in SendReqs :
    /\ reqs[r].pc = "done" /\ reqs[r].status = 200
    /\ reqs[r].summary = [total |-> 2, sent |-> 1, failed |-> 1]
    /\ Len(reqs[r].results) = 2
    /\ reqs[r].success

\* a send answered 200 with success false: its only number failed
C25_WitnessNoneSent ==
  \E r \in SendReqs :
    /\ reqs[r].pc = "done" /\ reqs[r].status = 200
    /\ reqs[r].summary = [total |-> 1, sent |-> 0, failed |-> 1]
    /\ ~ reqs[r].success

====
